---- MODULE Spec2Model ----
(***************************************************************************)
(* HIPL control plane: the base exchange (I1, R1, I2, R2) between two      *)
(* hosts as run by the handler chains of libhipl/input.c, the host         *)
(* association database, the SA database and the retransmission queue.     *)
(* Cryptography is symbolic: a key block is named by the inputs of the     *)
(* KDF, a signature by the identity that made it, an HMAC by the key block *)
(* it was computed with.  The ESP protection extension of                  *)
(* libhipl/esp_prot_hipd_msg.c negotiates a token transform and exchanges  *)
(* hash-chain anchors in the base exchange and renews the peer's anchor by *)
(* UPDATE packets; an anchor is a number, one hash chain is used per       *)
(* direction.  The firewall hipfw is a process of its own; its tracker of  *)
(* the ESP protection extension (hipfw/esp_prot_conntrack.c) is the        *)
(* variable hipfw and runs under SpecFw.  The address cache of             *)
(* libhipl/netdev.c, the HMAC verification of a control packet and the     *)
(* inbound path of the userspace IPsec (hipfw/user_ipsec_esp.c) are units  *)
(* with a variable and a specification of their own.                       *)
(***************************************************************************)
EXTENDS Integers, Sequences, FiniteSets, TLC

VARIABLES hadb, sadb, net, r1gen, defver, esp_prot_active, anchor_db, hipfw,
          nenv, log, collided, last, netdev, esp_input, hmac_input

vars == <<hadb, sadb, net, r1gen, defver, esp_prot_active, anchor_db, hipfw,
          nenv, log, collided, last, netdev, esp_input, hmac_input>>

\* the state of the units that run beside the base exchange: the address
\* cache of libhipl/netdev.c, the inbound path of hipfw/user_ipsec_esp.c and
\* the message under hip_verify_packet_hmac_general
units == <<netdev, esp_input, hmac_input>>

----------------------------------------------------------------------------
(* Bounds of the model *)

\* events of the environment in one run besides the first trigger of each
\* host and the delivery of packets: forged packets, timer expiries, cache
\* rotations, repeated triggers
MaxEnv == 1
\* rotations of a host's R1 cache in one run
MaxGen == 1
\* how many times a buffered packet is retransmitted before its slot expires
MaxRetransmit == 1
\* delivered packets the log records before it saturates
MaxLog == 4
\* anchors a peer announces after the one of the base exchange
MaxAnchorUpdates == 2

----------------------------------------------------------------------------
(* Program constants *)

HIP_V1 == 1
HIP_V2 == 2
HIP_RETRANSMIT_QUEUE_SIZE == 3

\* the two hosts, named by their HITs; HIT order is numeric order
HIT_A == 2
HIT_B == 1
Hosts == {HIT_A, HIT_B}
Peer(h) == IF h = HIT_A THEN HIT_B ELSE HIT_A

\* an address no host of the model owns
SpoofAddr == 9

HIP_DH_GROUP_LIST == <<"NIST_P_384", "OAKLEY_15", "OAKLEY_5">>
HIP_DH_GROUP_LIST_SIZE == Len(HIP_DH_GROUP_LIST)
SeqToSet(s) == {s[k] : k \in 1..Len(s)}
DhGroups == SeqToSet(HIP_DH_GROUP_LIST)
\* the DH group of a version 1 R1
HIP_V1_DH_GROUP == "OAKLEY_5"

hip_hit_is_bigger(a, b) == a > b

\* token transforms of the ESP protection extension: none, and the one
\* hash-chain transform of the model
ESP_PROT_TFM_UNUSED == 0
ESP_PROT_TFM_HCHAIN == 1
\* the preferred transforms the firewall has announced to the daemon
\* (esp_prot_set_preferred_transforms); UNUSED is always among them
esp_prot_transforms ==
    IF esp_prot_active THEN <<ESP_PROT_TFM_HCHAIN, ESP_PROT_TFM_UNUSED>>
    ELSE <<ESP_PROT_TFM_UNUSED>>
esp_prot_num_transforms == Len(esp_prot_transforms)
\* the extension runs on userspace IPsec: the firewall that announces it
\* has turned userspace IPsec on
hip_use_userspace_ipsec == esp_prot_active
\* anchor_db_get_anchor: the anchor of the hash chain host h protects its
\* outbound packets with after a base exchange
anchor_db_get_anchor(h) == 10 * h
\* the number of hash chains that protect one SA
esp_prot_num_parallel_hchains == 1
\* anchor_db_get_num_anchors: the anchors host h has left for the transform
anchor_db_get_num_anchors(h) == anchor_db[h]
\* what the anchor db of a host holds for the transform when the run begins:
\* nothing, or the anchors of one SA
AnchorDbSizes == {0, esp_prot_num_parallel_hchains}

----------------------------------------------------------------------------
(* Values *)

NoPuz == [v |-> 0, g |-> "none", n |-> 0]
\* the key block of an association: the block is named by the inputs of the
\* KDF (g, i) and slots gives the place in the block each of the eight keys
\* was drawn from
NoSlots == [hip_enc_out |-> 0, hip_hmac_out |-> 0, hip_enc_in |-> 0,
            hip_hmac_in |-> 0, esp_out |-> 0, auth_out |-> 0, esp_in |-> 0,
            auth_in |-> 0]
NoKeys == [g |-> "none", i |-> NoPuz, slots |-> NoSlots]

\* one key: the bytes of block (g, i) at a place
NoKey == [g |-> "none", i |-> NoPuz, slot |-> 0]
BadKey == [g |-> "bad", i |-> NoPuz, slot |-> 0]
Key(keys, name) == [g |-> keys.g, i |-> keys.i, slot |-> keys.slots[name]]

\* offset of the ESP keys in the key block for the one HIP/ESP transform pair
\* of the model: esp_default_keymat_index
DefaultKeymatIndex == 1

\* a packet; tfms is the ESP_PROT_TRANSFORMS parameter, anchor the
\* ESP_PROT_ANCHOR parameter (absent: the empty sequence), seq and ack the
\* update ids of SEQ and ACK (absent: 0), esp_info the presence of ESP_INFO
\* in an UPDATE
NoPkt == [type |-> "none", src |-> 0, dst |-> 0, saddr |-> 0, ver |-> 0,
          grp |-> "none", dhlist |-> <<>>, puz |-> NoPuz, sol |-> FALSE,
          spi |-> 0, kmidx |-> 0, hmac |-> NoKey, sig |-> 0, hostid |-> 0,
          tfms |-> <<>>, anchor |-> <<>>, seq |-> 0, ack |-> 0,
          esp_info |-> FALSE]

\* hip_build_param_esp_prot_anchor: the transform, the active anchor and,
\* in an UPDATE, the next anchor
EspProtAnchor(tfm, active, next) ==
    <<[transform |-> tfm, active |-> active, next |-> next]>>

\* hip_hadb_create_state: a zeroed association in the start state
hip_hadb_create_state ==
    [hit_our |-> 0, hit_peer |-> 0, state |-> "UNASSOCIATED", hip_version |-> 0,
     keys |-> NoKeys, peer_pub |-> 0, peer_addr |-> 0, our_addr |-> 0,
     spi_inbound_current |-> 0, spi_outbound_new |-> 0, esp_keymat_index |-> 0,
     puzzle_i |-> NoPuz, retrans |-> {},
     esp_prot_transform |-> ESP_PROT_TFM_UNUSED, esp_prot_param |-> 0,
     esp_local_anchor |-> 0, esp_peer_anchor |-> 0,
     esp_peer_update_anchor |-> 0, esp_local_update_anchor |-> 0,
     hash_item_length |-> 0, esp_root_length |-> 0]

NoHA == [hip_hadb_create_state EXCEPT !.state = "NONE"]

\* the inbound SPI a host picks for its SAs
LocalSpi(h) == h

----------------------------------------------------------------------------
(* The packet context handed along a handler chain: the received message,  *)
(* the association it belongs to (e), the other associations of the host   *)
(* (db), the host's SAs (sa), the packets sent (out), whether the chain is *)
(* aborted (error) and the operations performed so far (ops); emit records *)
(* for every packet sent the association and the SAs as they were when the *)
(* packet left.                                                            *)

Ctx(m, e, db, sa) ==
    [msg |-> m, e |-> e, db |-> db, sa |-> sa, out |-> {}, error |-> "ok",
     phase |-> "none", ops |-> {}, emit |-> {}]

Fail(ctx, why) == [ctx EXCEPT !.error = why]
Drop(ctx, why) == [ctx EXCEPT !.error = why, !.phase = "receive"]
Did(ctx, what) == [ctx EXCEPT !.ops = @ \cup what]

hip_hadb_find_byhits(db, peer, our) ==
    IF \E e \in db : e.hit_peer = peer /\ e.hit_our = our
    THEN CHOOSE e \in db : e.hit_peer = peer /\ e.hit_our = our
    ELSE NoHA

\* a buffered packet with the retransmissions it has left
Slot(p) == [buf |-> p, count |-> MaxRetransmit]

\* hip_send_pkt: the packet goes out and, with the retransmission flag, a
\* copy takes a free slot of the queue, if there is one
hip_send_pkt(ctx, p, retransmit) ==
    [ctx EXCEPT !.out = @ \cup {p},
                !.emit = @ \cup {[type |-> p.type, e |-> ctx.e, sa |-> ctx.sa]},
                !.e = IF /\ retransmit
                         /\ Cardinality(ctx.e.retrans) < HIP_RETRANSMIT_QUEUE_SIZE
                      THEN [@ EXCEPT !.retrans =
                               {s \in @ : s.buf # p} \cup {Slot(p)}]
                      ELSE @]

----------------------------------------------------------------------------
(* Pure helpers of input.c *)

\* check_dh_downgrade_v2: the first group of our list that the peer's list
\* also holds must be the group the peer chose
RECURSIVE FirstCommon(_, _)
FirstCommon(ours, theirs) ==
    IF ours = <<>> THEN "none"
    ELSE IF Head(ours) \in SeqToSet(theirs) THEN Head(ours)
    ELSE FirstCommon(Tail(ours), theirs)

check_dh_downgrade_v2(peer_group, peer_list) ==
    LET g == FirstCommon(HIP_DH_GROUP_LIST, peer_list)
    IN g # "none" /\ g = peer_group

i2_is_retransmission(ctx) ==
    /\ ctx.e.spi_outbound_new = ctx.msg.spi
    /\ ctx.e.esp_keymat_index = ctx.msg.kmidx

packet_to_drop(e, type) ==
    /\ e.state \in {"R2_SENT", "ESTABLISHED"}
    /\ type \in {"R1", "R2"}

\* the draws of produce_keying_material: the keys are taken from the block
\* one after the other, the outgoing ones first at the host with the greater
\* HIT, the incoming ones first at the other
hip_keymat_draw_and_copy(we_are_HITg) ==
    IF we_are_HITg
    THEN [hip_enc_out |-> 1, hip_hmac_out |-> 2, hip_enc_in |-> 3,
          hip_hmac_in |-> 4, esp_out |-> 5, auth_out |-> 6, esp_in |-> 7,
          auth_in |-> 8]
    ELSE [hip_enc_in |-> 1, hip_hmac_in |-> 2, hip_enc_out |-> 3,
          hip_hmac_out |-> 4, esp_in |-> 5, auth_in |-> 6, esp_out |-> 7,
          auth_out |-> 8]

\* a variant that draws in the order of the greater HIT at both hosts
produce_keying_material_one_order(ctx, I) ==
    LET idx == IF ctx.msg.type = "I2" THEN ctx.msg.kmidx ELSE DefaultKeymatIndex
    IN IF idx # DefaultKeymatIndex THEN Fail(ctx, "keymat")
       ELSE Did([ctx EXCEPT !.e.keys = [g |-> ctx.msg.grp, i |-> I,
                                        slots |-> hip_keymat_draw_and_copy(TRUE)],
                            !.e.esp_keymat_index = idx], {"keymat"})

\* the key block is a function of the DH secret (named by the group of the
\* exchanged public values), the two HITs and the puzzle; the call fails when
\* ESP_INFO names another keymat index than the default one
produce_keying_material(ctx, I) ==
    LET idx == IF ctx.msg.type = "I2" THEN ctx.msg.kmidx ELSE DefaultKeymatIndex
        we_are_HITg == hip_hit_is_bigger(ctx.msg.dst, ctx.msg.src)
    IN IF idx # DefaultKeymatIndex THEN Fail(ctx, "keymat")
       ELSE Did([ctx EXCEPT !.e.keys = [g |-> ctx.msg.grp, i |-> I,
                                        slots |-> hip_keymat_draw_and_copy(we_are_HITg)],
                            !.e.esp_keymat_index = idx], {"keymat"})

----------------------------------------------------------------------------
(* Puzzle engine and identity binding *)

\* hip_verify_cookie: the puzzle of the I2 must be the puzzle of the R1 the
\* cache now holds for the version (and, for version 2, the DH group), and
\* the solution must solve it.  The caller may pass version 0; tab is the
\* table the verifier then reads.
hip_verify_cookie(h, m, hip_version, dh_group_id, tab) ==
    LET table == IF hip_version = HIP_V1 THEN "v1"
                 ELSE IF hip_version = HIP_V2 THEN "v2" ELSE tab
        expected == IF table = "v1"
                    THEN [v |-> HIP_V1, g |-> "none", n |-> r1gen[h]]
                    ELSE [v |-> HIP_V2, g |-> dh_group_id, n |-> r1gen[h]]
    IN m.puz = expected /\ m.sol

\* hip_init_peer: the HIT computed from the HOST_ID must be the peer HIT of
\* the association; the public key is then stored
hip_init_peer(ctx, hostid) ==
    IF hostid # ctx.e.hit_peer THEN Fail(ctx, "EINVAL_hostid")
    ELSE Did([ctx EXCEPT !.e.peer_pub = hostid], {"peer_key"})

----------------------------------------------------------------------------
(* SA database *)

SAsOf(sa, e) == {s \in sa : s.peer = e.hit_peer}

hip_delete_security_associations_and_sp(ctx) ==
    IF SAsOf(ctx.sa, ctx.e) = {} THEN ctx
    ELSE Did([ctx EXCEPT !.sa = @ \ SAsOf(ctx.sa, ctx.e)], {"sa_delete"})

hip_create_security_associations_and_sp(ctx) ==
    LET spi_in == IF ctx.e.spi_inbound_current = 0 THEN LocalSpi(ctx.e.hit_our)
                  ELSE ctx.e.spi_inbound_current
    IN Did([ctx EXCEPT
              !.e.spi_inbound_current = spi_in,
              !.sa = @ \cup
                  {[dir |-> "in", peer |-> ctx.e.hit_peer, spi |-> spi_in,
                    keys |-> Key(ctx.e.keys, "esp_in")],
                   [dir |-> "out", peer |-> ctx.e.hit_peer,
                    spi |-> ctx.e.spi_outbound_new,
                    keys |-> Key(ctx.e.keys, "esp_out")]}],
           {"sa_create"})

\* a variant that removes the old SAs and installs none
hip_setup_ipsec_sa_delete_only(ctx) ==
    hip_delete_security_associations_and_sp(ctx)

\* hip_setup_ipsec_sa: the SAs of the peer are removed and installed anew
hip_setup_ipsec_sa(ctx) ==
    hip_create_security_associations_and_sp(
        hip_delete_security_associations_and_sp(ctx))

----------------------------------------------------------------------------
(* Retransmission queue *)

\* hip_classify_update_type of the update module, by the parameters SEQ,
\* ACK and ESP_INFO
hip_classify_update_type(m) ==
    IF m.seq # 0 /\ m.ack = 0 /\ ~m.esp_info THEN "FIRST_UPDATE_PACKET"
    ELSE IF m.seq # 0 /\ m.ack # 0 /\ m.esp_info THEN "SECOND_UPDATE_PACKET"
    ELSE IF m.seq = 0 /\ m.ack # 0 /\ m.esp_info THEN "THIRD_UPDATE_PACKET"
    ELSE "INVALID_UPDATE_PACKET"

update_retrans_is_invalid(ctx, retrans) ==
    CASE hip_classify_update_type(ctx.msg) = "SECOND_UPDATE_PACKET" ->
           hip_classify_update_type(retrans.buf) = "FIRST_UPDATE_PACKET"
      [] hip_classify_update_type(ctx.msg) = "THIRD_UPDATE_PACKET" ->
           hip_classify_update_type(retrans.buf) = "SECOND_UPDATE_PACKET"
      [] OTHER -> FALSE

\* a variant that keeps the buffered packets when an R1 comes in
hip_update_retransmissions_not_on_r1(ctx) ==
    IF ctx.e = NoHA \/ ctx.msg.type = "R1" \/ ctx.e.retrans = {} THEN ctx
    ELSE Did([ctx EXCEPT !.e.retrans = {}], {"retrans_clear"})

hip_update_retransmissions(ctx) ==
    IF ctx.e = NoHA THEN ctx
    ELSE LET type == ctx.msg.type
             cleared ==
                 {s \in ctx.e.retrans :
                    \/ /\ type = "I1"
                       /\ s.buf.type = "I1"
                       /\ hip_hit_is_bigger(ctx.e.hit_our, ctx.e.hit_peer)
                    \/ type \in {"I2", "R1", "R2"}
                    \/ /\ type = "UPDATE"
                       /\ update_retrans_is_invalid(ctx, s)}
         IN IF cleared = {} THEN ctx
            ELSE Did([ctx EXCEPT !.e.retrans = @ \ cleared], {"retrans_clear"})

----------------------------------------------------------------------------
(* ESP protection extension in the base exchange *)

\* esp_prot_select_transform: the first of our preferred transforms that the
\* peer's list holds, UNUSED if there is none
esp_prot_select_transform(transforms) ==
    LET common == {i \in 1..esp_prot_num_transforms :
                      esp_prot_transforms[i] \in SeqToSet(transforms)}
    IN IF common = {} THEN ESP_PROT_TFM_UNUSED
       ELSE esp_prot_transforms[CHOOSE i \in common : \A j \in common : i <= j]

\* esp_prot_r1_add_transforms: the ESP_PROT_TRANSFORMS parameter of an R1
esp_prot_r1_add_transforms ==
    IF hip_use_userspace_ipsec THEN esp_prot_transforms ELSE <<>>

esp_prot_r1_handle_transforms(ctx) ==
    IF hip_use_userspace_ipsec
    THEN IF ctx.msg.tfms # <<>>
         THEN [ctx EXCEPT !.e.esp_prot_param = 1,
                          !.e.esp_prot_transform =
                              esp_prot_select_transform(ctx.msg.tfms)]
         ELSE [ctx EXCEPT !.e.esp_prot_param = 0,
                          !.e.esp_prot_transform = ESP_PROT_TFM_UNUSED]
    ELSE [ctx EXCEPT !.e.esp_prot_transform = ESP_PROT_TFM_UNUSED]

\* a variant that gives up when the anchor db cannot supply an anchor
esp_prot_i2_add_anchor_failing(e) ==
    IF e.esp_prot_transform > ESP_PROT_TFM_UNUSED
    THEN IF anchor_db_get_num_anchors(e.hit_our) >= esp_prot_num_parallel_hchains
         THEN [e |-> [e EXCEPT !.esp_local_anchor =
                                   anchor_db_get_anchor(e.hit_our)],
               anchor |-> EspProtAnchor(e.esp_prot_transform,
                                        anchor_db_get_anchor(e.hit_our), 0),
               taken |-> esp_prot_num_parallel_hchains, err |-> 0]
         ELSE [e |-> e, anchor |-> <<>>, taken |-> 0, err |-> 0 - 1]
    ELSE [e |-> [e EXCEPT !.esp_prot_transform = ESP_PROT_TFM_UNUSED],
          anchor |-> IF e.esp_prot_param # 0
                     THEN EspProtAnchor(ESP_PROT_TFM_UNUSED, 0, 0) ELSE <<>>,
          taken |-> 0, err |-> 0]

\* esp_prot_i2_add_anchor: the association after the call, the
\* ESP_PROT_ANCHOR parameter of the I2, the anchors taken from the anchor db
\* and the return value
esp_prot_i2_add_anchor(e) ==
    IF e.esp_prot_transform > ESP_PROT_TFM_UNUSED
    THEN IF anchor_db_get_num_anchors(e.hit_our) >= esp_prot_num_parallel_hchains
         THEN [e |-> [e EXCEPT !.esp_local_anchor =
                                   anchor_db_get_anchor(e.hit_our)],
               anchor |-> EspProtAnchor(e.esp_prot_transform,
                                        anchor_db_get_anchor(e.hit_our), 0),
               taken |-> esp_prot_num_parallel_hchains, err |-> 0]
         ELSE \* fall back and inform the peer
              [e |-> [e EXCEPT !.esp_prot_transform = ESP_PROT_TFM_UNUSED],
               anchor |-> EspProtAnchor(ESP_PROT_TFM_UNUSED, 0, 0),
               taken |-> 0, err |-> 0]
    ELSE IF e.esp_prot_param # 0
         THEN [e |-> [e EXCEPT !.esp_prot_transform = ESP_PROT_TFM_UNUSED],
               anchor |-> EspProtAnchor(ESP_PROT_TFM_UNUSED, 0, 0),
               taken |-> 0, err |-> 0]
         ELSE [e |-> [e EXCEPT !.esp_prot_transform = ESP_PROT_TFM_UNUSED],
               anchor |-> <<>>, taken |-> 0, err |-> 0]

esp_prot_i2_handle_anchor(ctx) ==
    LET unused == [ctx EXCEPT !.e.esp_prot_transform = ESP_PROT_TFM_UNUSED]
    IN IF hip_use_userspace_ipsec /\ esp_prot_num_transforms > 1
       THEN IF ctx.msg.anchor # <<>>
            THEN LET prot_anchor == ctx.msg.anchor[1]
                 IN IF prot_anchor.transform \in SeqToSet(esp_prot_transforms)
                    THEN IF prot_anchor.transform = ESP_PROT_TFM_UNUSED
                         THEN unused
                         ELSE [ctx EXCEPT
                                 !.e.esp_prot_transform = prot_anchor.transform,
                                 !.e.esp_peer_anchor = prot_anchor.active]
                    ELSE unused
            ELSE unused
       ELSE unused

\* esp_prot_r2_add_anchor: the association after the call, the
\* ESP_PROT_ANCHOR parameter of the R2, the anchors taken from the anchor db
\* and the return value
esp_prot_r2_add_anchor(e) ==
    IF e.esp_prot_transform > ESP_PROT_TFM_UNUSED
    THEN IF anchor_db_get_num_anchors(e.hit_our) >= esp_prot_num_parallel_hchains
         THEN [e |-> [e EXCEPT !.esp_local_anchor =
                                   anchor_db_get_anchor(e.hit_our)],
               anchor |-> EspProtAnchor(e.esp_prot_transform,
                                        anchor_db_get_anchor(e.hit_our), 0),
               taken |-> esp_prot_num_parallel_hchains, err |-> 0]
         ELSE \* fall back and inform the peer
              [e |-> [e EXCEPT !.esp_prot_transform = ESP_PROT_TFM_UNUSED],
               anchor |-> EspProtAnchor(ESP_PROT_TFM_UNUSED, 0, 0),
               taken |-> 0, err |-> 0]
    ELSE [e |-> [e EXCEPT !.esp_prot_transform = ESP_PROT_TFM_UNUSED],
          anchor |-> <<>>, taken |-> 0, err |-> 0]

esp_prot_r2_handle_anchor(ctx) ==
    LET unused == [ctx EXCEPT !.e.esp_prot_transform = ESP_PROT_TFM_UNUSED]
    IN IF ctx.e.esp_prot_transform > ESP_PROT_TFM_UNUSED
       THEN IF ctx.msg.anchor # <<>>
            THEN IF ctx.msg.anchor[1].transform = ctx.e.esp_prot_transform
                 THEN [ctx EXCEPT !.e.esp_peer_anchor = ctx.msg.anchor[1].active]
                 ELSE unused
            ELSE unused
       ELSE unused

----------------------------------------------------------------------------
(* Anchor update: the first UPDATE carries SEQ and the peer's active and   *)
(* next anchor, the answer carries ACK and ESP_INFO.                       *)

esp_prot_update_type(m) ==
    IF m.seq # 0 /\ m.ack = 0 /\ ~m.esp_info THEN "FIRST_UPDATE_PACKET"
    ELSE IF m.seq = 0 /\ m.ack # 0 /\ m.esp_info THEN "SECOND_UPDATE_PACKET"
    ELSE "UNKNOWN_UPDATE_PACKET"

\* esp_prot_update_handle_anchor: the context after the call and the SPI it
\* hands back
esp_prot_update_handle_anchor(ctx) ==
    IF ctx.msg.anchor = <<>> THEN [ctx |-> ctx, spi |-> 0]
    ELSE
    LET prot_anchor == ctx.msg.anchor[1]
        e == ctx.e
        set_update == [ctx EXCEPT !.e.esp_peer_update_anchor = prot_anchor.next]
        c == IF e.esp_peer_update_anchor = 0
             THEN \* the first update after the base exchange
                  IF e.esp_prot_transform # prot_anchor.transform
                  THEN Fail(ctx, "transform_changed")
                  ELSE IF prot_anchor.active # e.esp_peer_anchor
                       THEN Fail(ctx, "anchor_mismatch")
                       ELSE set_update
             ELSE IF e.esp_peer_update_anchor = prot_anchor.active
                  THEN \* the peer has moved one anchor forward
                       [set_update EXCEPT
                          !.e.esp_peer_anchor = e.esp_peer_update_anchor]
                  ELSE \* a newer update for the active anchor
                       IF prot_anchor.active # e.esp_peer_anchor
                       THEN Fail(ctx, "anchor_unverifiable")
                       ELSE set_update
    IN [ctx |-> IF c.error = "ok" THEN Did(c, {"anchor_update"}) ELSE c,
        spi |-> e.spi_inbound_current]

esp_prot_send_update_response(ctx, spi) ==
    LET e == ctx.e
        resp_update ==
            [NoPkt EXCEPT !.type = "UPDATE", !.src = ctx.msg.dst,
                          !.dst = ctx.msg.src, !.saddr = ctx.msg.dst,
                          !.ver = e.hip_version, !.esp_info = TRUE,
                          !.spi = spi, !.kmidx = e.esp_keymat_index,
                          !.ack = ctx.msg.seq,
                          !.hmac = Key(e.keys, "hip_hmac_out"),
                          !.sig = e.hit_our]
    IN IF ctx.msg.seq = 0 THEN Fail(ctx, "no_seq")
       ELSE Did(hip_send_pkt(ctx, resp_update, FALSE), {"send_update"})

\* a variant that answers before it looks at the anchors
esp_prot_handle_first_update_packet_answers_first(ctx) ==
    LET c == esp_prot_send_update_response(ctx, ctx.e.spi_inbound_current)
    IN IF c.error # "ok" THEN c ELSE esp_prot_update_handle_anchor(c).ctx

\* esp_prot_handle_first_update_packet: the anchors are taken over, then the
\* answer is sent
esp_prot_handle_first_update_packet(ctx) ==
    LET r == esp_prot_update_handle_anchor(ctx)
    IN IF r.ctx.error # "ok" THEN r.ctx
       ELSE esp_prot_send_update_response(r.ctx, r.spi)

\* esp_prot_handle_second_update_packet: hip_add_sa for the outbound SA
esp_prot_handle_second_update_packet(ctx) ==
    Did([ctx EXCEPT
           !.sa = {s \in @ : ~(s.peer = ctx.e.hit_peer /\ s.dir = "out")} \cup
                  {[dir |-> "out", peer |-> ctx.e.hit_peer,
                    spi |-> ctx.e.spi_outbound_new,
                    keys |-> Key(ctx.e.keys, "esp_out")]}],
        {"sa_add_out"})

\* the UPDATE handler of the extension: pure anchor updates are handled,
\* other UPDATE packets are left to the update module
esp_prot_handle_update(ctx) ==
    CASE esp_prot_update_type(ctx.msg) = "FIRST_UPDATE_PACKET" ->
           esp_prot_handle_first_update_packet(ctx)
      [] esp_prot_update_type(ctx.msg) = "SECOND_UPDATE_PACKET" ->
           esp_prot_handle_second_update_packet(ctx)
      [] OTHER -> ctx

----------------------------------------------------------------------------
(* I2 at the responder *)

hip_check_i2(h, ctx, tab) ==
    LET m == ctx.msg
        retr == ctx.e # NoHA /\ i2_is_retransmission(ctx)
        hip_version == IF retr THEN 0
                       ELSE IF ctx.e # NoHA /\ ctx.e.hip_version # 0
                            THEN ctx.e.hip_version
                            ELSE m.ver
        fresh == [hip_hadb_create_state EXCEPT
                     !.hip_version = hip_version, !.hit_peer = m.src,
                     !.our_addr = h, !.hit_our = m.dst]
        c1 == IF retr THEN Did(ctx, {"i2_retransmission"})
              ELSE Did([ctx EXCEPT !.e = fresh],
                       (IF ctx.e # NoHA THEN {"ha_delete"} ELSE {})
                           \cup {"ha_create"})
        dh_group_id == IF hip_version = HIP_V1 THEN "none" ELSE m.grp
        c2 == IF retr THEN c1 ELSE produce_keying_material(c1, m.puz)
        c3 == hip_init_peer(c2, m.hostid)
    IN IF m.grp \notin DhGroups THEN Fail(c1, "EINVAL_dh")
       ELSE IF ~hip_verify_cookie(h, m, hip_version, dh_group_id, tab)
            THEN Fail(c1, "EPROTO_cookie")
       ELSE IF c2.error # "ok" THEN c2
       ELSE IF m.hmac # Key(c2.e.keys, "hip_hmac_in")
            THEN Fail(c2, "EPROTO_hmac")
       ELSE IF c3.error # "ok" THEN c3
       ELSE IF m.sig # c3.e.peer_pub THEN Fail(c3, "EINVAL_sig")
       ELSE c3

\* a variant in which the host with the bigger HIT drops the I2
hip_handle_i2_in_i2_sent_bigger_drops(ctx) ==
    IF hip_hit_is_bigger(ctx.e.hit_our, ctx.e.hit_peer)
    THEN Fail(ctx, "collision_drop")
    ELSE ctx

\* hip_handle_i2_in_i2_sent: the I2 is dropped when the peer's HIT is bigger
hip_handle_i2_in_i2_sent(ctx) ==
    IF hip_hit_is_bigger(ctx.e.hit_peer, ctx.e.hit_our)
    THEN Fail(ctx, "collision_drop")
    ELSE ctx

hip_handle_i2(ctx) ==
    [esp_prot_i2_handle_anchor(
         [ctx EXCEPT !.e.spi_outbound_new = ctx.msg.spi,
                     !.e.peer_addr = ctx.msg.saddr])
     EXCEPT !.e.state = "ESTABLISHED"]

\* hip_create_r2, hip_hmac2_and_sign, hip_send_r2
hip_send_r2(ctx) ==
    LET a == esp_prot_r2_add_anchor(ctx.e)
        e == a.e
        r2 == [NoPkt EXCEPT !.type = "R2", !.src = e.hit_our,
                            !.dst = e.hit_peer, !.saddr = e.hit_our,
                            !.ver = e.hip_version,
                            !.spi = e.spi_inbound_current,
                            !.anchor = a.anchor,
                            !.hmac = Key(e.keys, "hip_hmac_out"),
                            !.sig = e.hit_our]
    IN Did(hip_send_pkt([ctx EXCEPT !.e = e], r2, TRUE),
           {"send_r2"} \cup (IF a.taken > 0 THEN {"anchor_get"} ELSE {}))

----------------------------------------------------------------------------
(* R2 at the initiator *)

hip_check_r2(ctx) ==
    IF ctx.e = NoHA THEN Fail(ctx, "no_entry")
    ELSE IF ctx.msg.hmac # Key(ctx.e.keys, "hip_hmac_in")
         THEN Fail(ctx, "EPROTO_hmac")
    ELSE IF ctx.msg.sig # ctx.e.peer_pub THEN Fail(ctx, "EINVAL_sig")
    ELSE ctx

hip_handle_r2(ctx) ==
    Did([esp_prot_r2_handle_anchor(
             [ctx EXCEPT !.e.spi_outbound_new = ctx.msg.spi])
         EXCEPT !.e.state = "ESTABLISHED"], {"bex_done"})

----------------------------------------------------------------------------
(* I1 at the responder *)

hip_check_i1(ctx) == ctx

\* a variant that answers every I1
hip_handle_i1_always_answers(ctx) == ctx

\* hip_handle_i1: in I1_SENT the I1 of a peer with a greater HIT is dropped
hip_handle_i1(ctx) ==
    IF /\ ctx.e # NoHA
       /\ ctx.e.state = "I1_SENT"
       /\ hip_hit_is_bigger(ctx.e.hit_peer, ctx.e.hit_our)
    THEN Fail(ctx, "collision_drop")
    ELSE ctx

\* hip_send_r1: the precomputed R1 of the cache for the version of the I1
\* and, in version 2, for the first group of the initiator's list we support;
\* no state is kept for it
hip_send_r1(h, ctx) ==
    LET m == ctx.msg
        g == IF m.ver = HIP_V1 THEN HIP_V1_DH_GROUP
             ELSE FirstCommon(m.dhlist, HIP_DH_GROUP_LIST)
        r1 == [NoPkt EXCEPT
                 !.type = "R1", !.src = h, !.dst = m.src, !.saddr = h,
                 !.ver = m.ver, !.grp = g,
                 !.dhlist = IF m.ver = HIP_V1 THEN <<>> ELSE HIP_DH_GROUP_LIST,
                 !.puz = [v |-> m.ver,
                          g |-> IF m.ver = HIP_V1 THEN "none" ELSE g,
                          n |-> r1gen[h]],
                 !.tfms = esp_prot_r1_add_transforms,
                 !.sig = h, !.hostid = h]
    IN IF g = "none" THEN Fail(ctx, "no_r1")
       ELSE Did(hip_send_pkt(ctx, r1, FALSE), {"send_r1"})

----------------------------------------------------------------------------
(* R1 at the initiator *)

hip_check_r1(ctx) ==
    IF ctx.e = NoHA THEN Fail(ctx, "no_entry")
    ELSE
    LET m == ctx.msg
        c1 == IF ctx.e.peer_addr # m.saddr
              THEN Did([ctx EXCEPT !.e.peer_addr = m.saddr], {"peer_addr"})
              ELSE ctx
        c2 == hip_init_peer(c1, m.hostid)
    IN IF c2.error # "ok" THEN c2
       ELSE IF /\ c2.e.hip_version = HIP_V2
               /\ ~check_dh_downgrade_v2(m.grp, m.dhlist)
            THEN Fail(c2, "EINVAL_downgrade")
       ELSE IF m.sig # c2.e.peer_pub THEN Fail(c2, "EINVAL_sig")
       ELSE c2

\* a variant that stores the puzzle and derives no keys
hip_handle_r1_no_keys(ha_state, ctx) ==
    IF ha_state = "I2_SENT" THEN ctx
    ELSE [ctx EXCEPT !.e.puzzle_i = ctx.msg.puz]

\* hip_handle_r1: the puzzle is stored unless the R1 is a retransmission, and
\* the keys are derived
hip_handle_r1(ha_state, ctx) ==
    LET retransmission == ha_state = "I2_SENT"
        c1 == IF retransmission THEN ctx
              ELSE [ctx EXCEPT !.e.puzzle_i = ctx.msg.puz]
    IN produce_keying_material(c1, c1.e.puzzle_i)

\* the rest of the R1 chain: the I2 is built from the R1 and the association,
\* sent and buffered, and the association moves to I2_SENT
hip_send_i2(ctx) ==
    LET a == esp_prot_i2_add_anchor(ctx.e)
        e == a.e
        m == ctx.msg
        spi_in == LocalSpi(e.hit_our)
        i2 == [NoPkt EXCEPT
                 !.type = "I2", !.src = e.hit_our, !.dst = e.hit_peer,
                 !.saddr = e.hit_our, !.ver = e.hip_version, !.grp = m.grp,
                 !.puz = m.puz, !.sol = (m.puz = e.puzzle_i),
                 !.spi = spi_in, !.kmidx = e.esp_keymat_index,
                 !.anchor = a.anchor,
                 !.hmac = Key(e.keys, "hip_hmac_out"), !.sig = e.hit_our,
                 !.hostid = e.hit_our]
        c1 == [ctx EXCEPT !.e = [e EXCEPT !.spi_inbound_current = spi_in,
                                          !.state = "I2_SENT"]]
    IN IF a.err # 0 THEN Fail(ctx, "esp_prot_anchor")
       ELSE Did(hip_send_pkt(c1, i2, TRUE),
                {"send_i2"} \cup (IF a.taken > 0 THEN {"anchor_get"} ELSE {}))

----------------------------------------------------------------------------
(* Handler chains: the functions registered for a packet type and an       *)
(* association state, in the order of their priorities.                    *)

AllStates == {"NONE", "UNASSOCIATED", "I1_SENT", "I2_SENT", "R2_SENT",
              "ESTABLISHED", "FAILED", "CLOSING", "CLOSED"}

HandlerChain(type, state) ==
    CASE type = "I1" ->
           <<"hip_check_i1", "hip_handle_i1", "hip_update_retransmissions",
             "hip_send_r1">>
      [] type = "R1" /\ state \in {"I1_SENT", "I2_SENT", "CLOSING", "CLOSED"} ->
           <<"hip_check_r1", "hip_handle_r1", "esp_prot_r1_handle_transforms",
             "hip_update_retransmissions", "hip_send_i2">>
      [] type = "I2" /\ state = "I2_SENT" ->
           <<"hip_check_i2", "hip_handle_i2_in_i2_sent", "hip_handle_i2",
             "hip_update_retransmissions", "hip_setup_ipsec_sa",
             "hip_send_r2">>
      [] type = "I2" /\ state \in {"NONE", "UNASSOCIATED", "I1_SENT", "R2_SENT",
                                   "ESTABLISHED", "CLOSING", "CLOSED"} ->
           <<"hip_check_i2", "hip_handle_i2", "hip_update_retransmissions",
             "hip_setup_ipsec_sa", "hip_send_r2">>
      [] type = "R2" /\ state = "I2_SENT" ->
           <<"hip_check_r2", "hip_handle_r2", "hip_update_retransmissions",
             "hip_setup_ipsec_sa">>
      [] type = "UPDATE" /\ state = "ESTABLISHED" ->
           <<"esp_prot_handle_update", "hip_update_retransmissions">>
      [] OTHER -> <<>>

CallHandler(name, h, ha_state, ctx, tab) ==
    CASE name = "hip_check_i1" -> hip_check_i1(ctx)
      [] name = "hip_handle_i1" -> hip_handle_i1(ctx)
      [] name = "hip_send_r1" -> hip_send_r1(h, ctx)
      [] name = "hip_check_r1" -> hip_check_r1(ctx)
      [] name = "hip_handle_r1" -> hip_handle_r1(ha_state, ctx)
      [] name = "hip_send_i2" -> hip_send_i2(ctx)
      [] name = "hip_check_i2" -> hip_check_i2(h, ctx, tab)
      [] name = "hip_handle_i2_in_i2_sent" -> hip_handle_i2_in_i2_sent(ctx)
      [] name = "hip_handle_i2" -> hip_handle_i2(ctx)
      [] name = "hip_send_r2" -> hip_send_r2(ctx)
      [] name = "hip_check_r2" -> hip_check_r2(ctx)
      [] name = "hip_handle_r2" -> hip_handle_r2(ctx)
      [] name = "hip_update_retransmissions" -> hip_update_retransmissions(ctx)
      [] name = "hip_setup_ipsec_sa" -> hip_setup_ipsec_sa(ctx)
      [] name = "esp_prot_r1_handle_transforms" ->
           esp_prot_r1_handle_transforms(ctx)
      [] name = "esp_prot_handle_update" -> esp_prot_handle_update(ctx)

\* hip_run_handle_functions: the chain runs until a handler sets the error
RECURSIVE RunChain(_, _, _, _, _)
RunChain(chain, h, ha_state, ctx, tab) ==
    IF chain = <<>> \/ ctx.error # "ok" THEN ctx
    ELSE LET c == CallHandler(Head(chain), h, ha_state, ctx, tab)
         IN RunChain(Tail(chain), h, ha_state,
                     IF c.error # "ok" /\ c.phase = "none"
                     THEN [c EXCEPT !.phase = Head(chain)] ELSE c,
                     tab)

hip_run_handle_functions(type, state, h, ctx, tab) ==
    IF HandlerChain(type, state) = <<>> THEN Drop(ctx, "no_chain")
    ELSE RunChain(HandlerChain(type, state), h, state, ctx, tab)

\* hip_receive_control_packet: the result of receiving m at host h
hip_receive_control_packet(h, m, tab) ==
    LET e0 == hip_hadb_find_byhits(hadb[h], m.src, m.dst)
        e1 == IF e0 # NoHA /\ e0.hip_version = 0
              THEN [e0 EXCEPT !.hip_version = m.ver] ELSE e0
        state == e1.state
        c0 == Ctx(m, e1, hadb[h] \ {e0}, sadb[h])
    IN IF m.dst # h THEN Drop(Ctx(m, e0, hadb[h] \ {e0}, sadb[h]), "not_ours")
       ELSE IF e0 # NoHA /\ packet_to_drop(e0, m.type)
            THEN Drop(Ctx(m, e0, hadb[h] \ {e0}, sadb[h]), "ignored")
       ELSE IF e1.hip_version # 0 /\ e1.hip_version # m.ver
            THEN Drop(c0, "version")
       ELSE hip_run_handle_functions(m.type, state, h, c0, tab)

----------------------------------------------------------------------------
(* Triggers *)

hip_get_default_version(h) == defver

\* hip_send_i1, hip_send_i1_v2: the I1 goes out, is buffered, and the
\* association is in I1_SENT
hip_send_i1(e) ==
    LET i1 == [NoPkt EXCEPT
                 !.type = "I1", !.src = e.hit_our, !.dst = e.hit_peer,
                 !.saddr = e.hit_our, !.ver = e.hip_version,
                 !.dhlist = IF e.hip_version = HIP_V2 THEN HIP_DH_GROUP_LIST
                            ELSE <<>>]
        c == hip_send_pkt(Ctx(NoPkt, [e EXCEPT !.state = "I1_SENT"], {}, {}), i1,
                          TRUE)
    IN [e |-> c.e, out |-> c.out]

\* hip_hadb_add_peer_info: a new association with the peer
hip_hadb_add_peer_info(h, peer) ==
    [hip_hadb_create_state EXCEPT !.hit_our = h, !.hit_peer = peer,
                                  !.our_addr = h, !.peer_addr = peer]

\* a variant that makes a new association without looking for one
netdev_trigger_bex_always_adds(h, peer) ==
    LET e2 == [hip_hadb_add_peer_info(h, peer) EXCEPT
                  !.hip_version = hip_get_default_version(h)]
        r == hip_send_i1(e2)
    IN [db |-> hadb[h] \cup {r.e}, out |-> r.out]

\* netdev_trigger_bex: the association found or made, and the packets sent
netdev_trigger_bex(h, peer) ==
    LET e0 == hip_hadb_find_byhits(hadb[h], peer, h)
        e1 == IF e0 # NoHA THEN e0 ELSE hip_hadb_add_peer_info(h, peer)
        e2 == [e1 EXCEPT !.hip_version = hip_get_default_version(h)]
        queued == \E s \in e2.retrans : s.count > 0 /\ s.buf.type = "I1"
        r == IF queued THEN [e |-> e2, out |-> {}] ELSE hip_send_i1(e2)
    IN [db |-> (hadb[h] \ {e0}) \cup {r.e}, out |-> r.out]

----------------------------------------------------------------------------
(* What the last step did: the host, the packet it received, the state it  *)
(* was dispatched in, the handler that aborted the chain and the           *)
(* operations performed.                                                   *)

NoLast == [host |-> 0, type |-> "none", peer |-> 0, grp |-> "none",
           dhlist |-> <<>>,
           state |-> "NONE", error |-> "ok", phase |-> "none", ops |-> {},
           forged |-> FALSE, emit |-> {}]

Logged(type) ==
    IF Len(log) < MaxLog THEN Append(log, type)
    ELSE IF Len(log) = MaxLog THEN Append(log, "more")
    ELSE log

\* both hosts hold an association in I2_SENT: each has sent an I2
Collision(db) ==
    \A h \in Hosts :
        hip_hadb_find_byhits(db[h], Peer(h), h).state = "I2_SENT"

\* the state change of host h receiving packet m
Receive(h, m, tab, forged) ==
    \E c \in {hip_receive_control_packet(h, m, tab)} :
       /\ hadb' = [hadb EXCEPT
                      ![h] = c.db \cup (IF c.e = NoHA THEN {} ELSE {c.e})]
       /\ sadb' = [sadb EXCEPT ![h] = c.sa]
       /\ anchor_db' = [anchor_db EXCEPT
                           ![h] = IF "anchor_get" \in c.ops
                                  THEN @ - esp_prot_num_parallel_hchains ELSE @]
       /\ net' = (IF forged THEN net ELSE net \ {m}) \cup c.out
       /\ log' = Logged(m.type)
       /\ collided' = (collided \/ Collision(hadb'))
       /\ last' = [host |-> h, type |-> m.type, peer |-> m.src, grp |-> m.grp,
                   dhlist |-> m.dhlist,
                   state |-> hip_hadb_find_byhits(hadb[h], m.src, m.dst).state,
                   error |-> c.error,
                   phase |-> c.phase, ops |-> c.ops, forged |-> forged,
                   emit |-> c.emit]

----------------------------------------------------------------------------
(* Packets an attacker on the path can make a host receive *)

\* the HMAC key the peer of h holds towards h for a group and a puzzle
GoodKeys(h, grp, puz) ==
    Key([g |-> grp, i |-> puz,
         slots |-> hip_keymat_draw_and_copy(hip_hit_is_bigger(Peer(h), h))],
        "hip_hmac_out")

\* an I2 that is well formed for the responder's current R1 of group g,
\* with one defect d: a puzzle of an expired R1, a wrong solution, a wrong
\* HMAC, a wrong signature or an unknown DH group
ForgedI2(h) ==
    LET src == Peer(h)
        v == defver
        Puz(g, d) == [v |-> v, g |-> IF v = HIP_V1 THEN "none" ELSE g,
                      n |-> IF d = "stale" THEN r1gen[h] - 1 ELSE r1gen[h]]
    IN {[NoPkt EXCEPT
           !.type = "I2", !.src = src, !.dst = h, !.saddr = src, !.ver = v,
           !.grp = IF d = "dh" THEN "bad" ELSE g,
           !.puz = Puz(g, d),
           !.sol = (d # "unsolved"),
           !.spi = LocalSpi(src), !.kmidx = DefaultKeymatIndex,
           !.anchor = IF esp_prot_active
                      THEN EspProtAnchor(ESP_PROT_TFM_HCHAIN,
                                         anchor_db_get_anchor(src), 0)
                      ELSE <<>>,
           !.hmac = IF d = "hmac" THEN BadKey ELSE GoodKeys(h, g, Puz(g, d)),
           !.sig = IF d = "sig" THEN 0 ELSE src,
           !.hostid = src] :
        g \in {HIP_DH_GROUP_LIST[1], HIP_DH_GROUP_LIST[HIP_DH_GROUP_LIST_SIZE]},
        d \in {"none", "stale", "unsolved", "hmac", "sig", "dh"}}

\* an R1 of the peer's cache, possibly from a spoofed address, with a broken
\* signature, for the last group of the list, with a shortened group list,
\* or of a peer that prefers the last group of our list to the first
ForgedR1(h) ==
    LET src == Peer(h)
        v == defver
        lastg == HIP_DH_GROUP_LIST[HIP_DH_GROUP_LIST_SIZE]
    IN {[NoPkt EXCEPT
           !.type = "R1", !.src = src, !.dst = h, !.saddr = a, !.ver = v,
           !.grp = gl[1], !.dhlist = IF v = HIP_V1 THEN <<>> ELSE gl[2],
           !.puz = [v |-> v, g |-> IF v = HIP_V1 THEN "none" ELSE gl[1],
                    n |-> r1gen[src]],
           !.tfms = esp_prot_r1_add_transforms,
           !.sig = sg, !.hostid = src] :
        a \in {src, SpoofAddr}, sg \in {src, 0},
        gl \in {<<HIP_DH_GROUP_LIST[1], HIP_DH_GROUP_LIST>>,
                <<lastg, HIP_DH_GROUP_LIST>>,
                <<lastg, <<lastg>> >>,
                <<lastg, <<lastg, HIP_DH_GROUP_LIST[1]>> >>,
                <<HIP_DH_GROUP_LIST[1], <<lastg, HIP_DH_GROUP_LIST[1]>> >>}}

\* an R2 with the HMAC of the association or a wrong one, and a good or a
\* broken signature
ForgedR2(h) ==
    LET src == Peer(h)
        e == hip_hadb_find_byhits(hadb[h], src, h)
    IN {[NoPkt EXCEPT
           !.type = "R2", !.src = src, !.dst = h, !.saddr = src,
           !.ver = defver, !.spi = LocalSpi(src),
           !.anchor = IF e.esp_prot_transform > ESP_PROT_TFM_UNUSED
                      THEN EspProtAnchor(e.esp_prot_transform,
                                         anchor_db_get_anchor(src), 0)
                      ELSE <<>>,
           !.hmac = k, !.sig = sg] :
        k \in {Key(e.keys, "hip_hmac_in"), BadKey}, sg \in {src, 0}}

ForgedPackets(h) == ForgedI2(h) \cup ForgedR1(h) \cup ForgedR2(h)

\* the first UPDATE of an anchor update of the peer of h: it names one of the
\* anchors of the peer's chains as the active one and the following anchor
\* as the next
FirstUpdates(h) ==
    LET src == Peer(h)
        e == hip_hadb_find_byhits(hadb[h], src, h)
        first == anchor_db_get_anchor(src)
    IN {[NoPkt EXCEPT
           !.type = "UPDATE", !.src = src, !.dst = h, !.saddr = src,
           !.ver = e.hip_version, !.seq = 1,
           !.anchor = EspProtAnchor(e.esp_prot_transform, a, a + 1),
           !.hmac = Key(e.keys, "hip_hmac_in"), !.sig = src] :
        a \in first .. first + MaxAnchorUpdates - 1}

----------------------------------------------------------------------------
(* The tracker of the ESP protection extension in the firewall *)

(* hipfw is a process of its own: it sees the packets of one association   *)
(* pass by, keeps one esp_tuple for the direction it tracks and decides    *)
(* for every ESP packet whether its token is acceptable.  An element of a  *)
(* hash chain or a leaf of a hash tree is the pair of its chain and its    *)
(* distance from the anchor, so hashing an element steps towards the       *)
(* anchor; the hash of a packet is its sequence number and its token.  The *)
(* firewall runs with the token transform of the hosts it protects, with a *)
(* window size read from its configuration file, and PARA_CUMUL is left to *)
(* its parts.                                                              *)

\* ESP sequence numbers are counted modulo SeqMod; the 32-bit counters of
\* the code count modulo 2^32
SeqMod == 4
Seqs == 0 .. (SeqMod - 1)
\* largest window size of a configuration file
MaxWindow == 2
\* entries of the ring buffer of the cumulative transforms
RingBufferSize == 2
\* hash chains and trees that appear in one run
MaxChain == 3
\* UPDATE packets that change the state of the tracker in one run
MaxFwUpdates == 3
\* update ids of the UPDATE packets
MaxUpdateId == 1
\* elements of one hash chain besides its anchor
MaxToken == SeqMod

ESP_PROT_TFM_PLAIN == 1
ESP_PROT_TFM_PARALLEL == 2
ESP_PROT_TFM_CUMULATIVE == 3
ESP_PROT_TFM_PARA_CUMUL == 4
ESP_PROT_TFM_TREE == 5

\* unsigned arithmetic on sequence numbers
u32(x) == x % SeqMod

Elem(c, i) == [c |-> c, i |-> i]
\* memory that calloc has zeroed
NoAnchor == Elem(-1, 0)
\* a value that belongs to no chain
NoHashValue == Elem(-2, 0)

hash_function(x) ==
    IF x.c >= 0 /\ x.i > 0 THEN Elem(x.c, x.i - 1) ELSE NoHashValue

RECURSIVE HashN(_, _)
HashN(x, n) == IF n = 0 THEN x ELSE HashN(hash_function(x), n - 1)

packet_hash(esp) == [seq |-> esp.seq, token |-> esp.token]

NoCumulativeItem ==
    [seq |-> 0, packet_hash |-> [seq |-> 0, token |-> NoAnchor]]

\* esp_prot_token_config: what the configured transform implies
esp_prot_token_config(tfm) ==
    [token_transform |-> tfm,
     num_parallel_hchains |-> IF tfm = ESP_PROT_TFM_PARALLEL THEN 2 ELSE 1,
     ring_buffer_size |-> IF tfm = ESP_PROT_TFM_CUMULATIVE
                          THEN RingBufferSize ELSE 0,
     num_linear_elements |-> IF tfm = ESP_PROT_TFM_CUMULATIVE THEN 1 ELSE 0]

\* esp_prot_verifier_config for a configuration file that gives cfg as the
\* window size
esp_prot_verifier_config(cfg) ==
    [err |-> IF cfg <= 0 THEN 0 - 1 ELSE 0, window_size |-> cfg]

NoVerdict ==
    [seq |-> 0, token |-> NoAnchor, seq_no |-> 0, active |-> NoAnchor,
     next |-> NoAnchor, tfm |-> ESP_PROT_TFM_UNUSED, err |-> 0, how |-> "none"]

\* the root of a link tree: of the tree that announces the anchors after
\* chain c, a null pointer, or whatever an uninitialised pointer holds
Root(c) == [kind |-> "root", c |-> c]
NoRoot == [kind |-> "null", c |-> 0]
GarbageRoot == [kind |-> "garbage", c |-> 0]

\* lupdate_seq is the one of the tuple of the tracked direction; nupd counts
\* the UPDATE packets that have changed the state of the tracker
FwBoot ==
    [state |-> "boot", hip_esp_protection |-> FALSE,
     token_transform |-> ESP_PROT_TFM_UNUSED, num_parallel_hchains |-> 0,
     ring_buffer_size |-> 0, num_linear_elements |-> 0, window_size |-> 0,
     esp_tuples |-> {}, lupdate_seq |-> 0, nupd |-> 0,
     last |-> NoVerdict]

esp_prot_conntrack_init(fw, tfm, cfg) ==
    LET tc == esp_prot_token_config(tfm)
        vc == esp_prot_verifier_config(cfg)
        f == [fw EXCEPT !.hip_esp_protection = TRUE,
                        !.token_transform = tc.token_transform,
                        !.num_parallel_hchains = tc.num_parallel_hchains,
                        !.ring_buffer_size = tc.ring_buffer_size,
                        !.num_linear_elements = tc.num_linear_elements,
                        !.window_size = vc.window_size]
    IN IF vc.err # 0 THEN [f EXCEPT !.state = "failed"]
       ELSE [f EXCEPT !.state = "running"]

\* the zeroed esp_tuple of calloc
NoEspTuple ==
    [spi |-> 0, esp_prot_tfm |-> ESP_PROT_TFM_UNUSED, num_hchains |-> 0,
     seq_no |-> 0, active_anchors |-> <<>>, first_active_anchors |-> <<>>,
     next_anchors |-> <<>>, active_roots |-> <<>>, next_roots |-> <<>>,
     anchor_cache |-> <<>>, hash_buffer |-> <<>>]

\* esp_prot_conntrack_I2_anchor: the I2 that passes by carries the anchors
\* of the chains of its sender
esp_prot_conntrack_I2_anchor(fw, transform, anchors) ==
    IF ~fw.hip_esp_protection THEN [err |-> 0, fw |-> fw]
    ELSE IF fw.esp_tuples # {} THEN [err |-> 0 - 1, fw |-> fw]
    ELSE IF transform > ESP_PROT_TFM_UNUSED
    THEN IF Len(anchors) < fw.num_parallel_hchains
         THEN [err |-> 0 - 1, fw |-> fw]
         ELSE LET first == [i \in 1 .. fw.num_parallel_hchains |-> anchors[i]]
                  t == [NoEspTuple EXCEPT
                          !.esp_prot_tfm = transform,
                          !.active_anchors = first,
                          !.first_active_anchors = first,
                          !.next_anchors =
                              [i \in 1 .. fw.num_parallel_hchains |-> NoAnchor],
                          !.active_roots =
                              [i \in 1 .. fw.num_parallel_hchains |-> NoRoot],
                          !.next_roots =
                              [i \in 1 .. fw.num_parallel_hchains |-> NoRoot],
                          !.num_hchains = fw.num_parallel_hchains,
                          !.hash_buffer =
                              [i \in 1 .. fw.ring_buffer_size |-> NoCumulativeItem]]
              IN [err |-> 0, fw |-> [fw EXCEPT !.esp_tuples = {t}]]
    ELSE [err |-> 1, fw |-> fw]

\* a lookup by the anchor the esp_tuple has advanced to
esp_prot_conntrack_find_esp_tuple_by_current(esp_tuples, active_anchor) ==
    {t \in esp_tuples :
        t.num_hchains > 0 /\ t.active_anchors[1] = active_anchor}

\* esp_prot_conntrack_find_esp_tuple: the esp_tuples whose first active
\* anchor of the first chain is the anchor named
esp_prot_conntrack_find_esp_tuple(esp_tuples, active_anchor) ==
    {t \in esp_tuples :
        t.num_hchains > 0 /\ t.first_active_anchors[1] = active_anchor}

\* find_esp_tuple: the esp_tuples of an SPI
find_esp_tuple(esp_tuples, spi) == {t \in esp_tuples : t.spi = spi}

\* esp_prot_conntrack_cache_anchor: the anchors of a first UPDATE are put in
\* front of the anchor cache of the esp_tuple they name
esp_prot_conntrack_cache_anchor(fw, seq, esp_anchors, esp_roots) ==
    LET found == esp_prot_conntrack_find_esp_tuple(fw.esp_tuples,
                                                   esp_anchors[1].active)
        t == CHOOSE x \in found : TRUE
        anchor_item ==
            [seq |-> seq, transform |-> esp_anchors[1].transform,
             active_anchors |-> [i \in 1 .. t.num_hchains |-> esp_anchors[i].active],
             next_anchors |-> [i \in 1 .. t.num_hchains |-> esp_anchors[i].next],
             roots |-> [i \in 1 .. t.num_hchains |-> esp_roots[i]]]
        t2 == [t EXCEPT !.anchor_cache = <<anchor_item>> \o @]
    IN IF found = {} THEN [err |-> 0 - 1, fw |-> fw]
       ELSE [err |-> 0,
             fw |-> [fw EXCEPT !.esp_tuples = (@ \ {t}) \cup {t2}]]

\* esp_prot_conntrack_update_anchor: the acknowledgement of an anchor
\* update moves the anchors and roots of the cached item it names into the
\* next_anchors and next_roots of the esp_tuple and deletes the item
esp_prot_conntrack_update_anchor(fw, ack, old_spi) ==
    LET bySpi == find_esp_tuple(fw.esp_tuples, old_spi)
        t == CHOOSE x \in bySpi : TRUE
        hits == {k \in 1 .. Len(t.anchor_cache) : t.anchor_cache[k].seq = ack}
        element_index == CHOOSE k \in hits : \A k2 \in hits : k <= k2
        anchor_item == t.anchor_cache[element_index]
        match(i) == t.first_active_anchors[i] = anchor_item.active_anchors[i]
        t2 == [t EXCEPT
                 !.next_anchors =
                     [i \in 1 .. t.num_hchains |->
                         IF match(i) THEN anchor_item.next_anchors[i] ELSE @[i]],
                 !.next_roots =
                     [i \in 1 .. t.num_hchains |->
                         IF match(i) /\ anchor_item.roots[i] # NoRoot
                         THEN anchor_item.roots[i] ELSE @[i]],
                 !.anchor_cache =
                     [k \in 1 .. (Len(@) - 1) |->
                         IF k < element_index THEN @[k] ELSE @[k + 1]]]
    IN IF bySpi = {} THEN [err |-> 0 - 1, fw |-> fw]
       ELSE IF hits = {} THEN [err |-> 0 - 1, fw |-> fw]
       ELSE [err |-> 0,
             fw |-> [fw EXCEPT !.esp_tuples = (@ \ {t}) \cup {t2}]]

\* htree_verify_branch: the branch leads from the anchor to the root
htree_verify_branch(root, branch, anchor) ==
    root.kind = "root" /\ branch.root = root /\ branch.leaf = anchor

\* esp_prot_conntrack_verify_branch: every next anchor of a light update is
\* verified against the active root of its chain
esp_prot_conntrack_verify_branch(fw, esp_anchors, esp_branches) ==
    LET found == esp_prot_conntrack_find_esp_tuple(fw.esp_tuples,
                                                   esp_anchors[1].active)
        t == CHOOSE x \in found : TRUE
    IN IF found = {} THEN 0 - 1
       ELSE IF \A i \in 1 .. t.num_hchains :
                  htree_verify_branch(t.active_roots[i], esp_branches[i],
                                      esp_anchors[i].next)
       THEN 0 ELSE 0 - 1

\* the case of esp_prot_conntrack_update a packet falls in
conntrack_update_case(m) ==
    LET seq == m.seq # 0
        ack == m.ack # 0
        param == m.anchor # <<>>
    IN IF seq /\ ~ack /\ ~m.esp_info /\ param THEN "first"
       ELSE IF seq /\ ack /\ m.esp_info /\ param THEN "not_implemented"
       ELSE IF ~seq /\ ack /\ m.esp_info /\ ~param THEN "ack"
       ELSE IF ~seq /\ ack /\ m.esp_info /\ param THEN "not_implemented"
       ELSE "unhandled"

\* esp_prot_conntrack_update: an UPDATE passes by.  The roots of an UPDATE
\* without a root parameter are read from an array that was never written:
\* stack is what it holds.
esp_prot_conntrack_update(fw, m, stack) ==
    IF ~fw.hip_esp_protection THEN [err |-> 0, fw |-> fw]
    ELSE
    CASE conntrack_update_case(m) = "first" ->
           IF Len(m.anchor) < fw.num_parallel_hchains
           THEN [err |-> 0 - 1, fw |-> fw]
           ELSE esp_prot_conntrack_cache_anchor(fw, m.seq, m.anchor,
                    IF m.roots # <<>> THEN m.roots
                    ELSE [i \in 1 .. fw.num_parallel_hchains |-> stack])
      [] conntrack_update_case(m) = "ack" ->
           esp_prot_conntrack_update_anchor(fw, m.ack, m.old_spi)
      [] conntrack_update_case(m) = "not_implemented" ->
           [err |-> 0 - 1, fw |-> fw]
      [] OTHER -> [err |-> 0, fw |-> fw]

\* esp_prot_conntrack_lupdate: a light update passes by
esp_prot_conntrack_lupdate(fw, m) ==
    IF ~fw.hip_esp_protection THEN [err |-> 0, fw |-> fw]
    ELSE IF m.seq # 0
    THEN IF m.seq < fw.lupdate_seq THEN [err |-> 0 - 1, fw |-> fw]
         ELSE LET f == [fw EXCEPT !.lupdate_seq = m.seq]
              IN IF esp_prot_conntrack_verify_branch(f, m.anchor, m.branches) # 0
                 THEN [err |-> 0 - 1, fw |-> f]
                 ELSE esp_prot_conntrack_cache_anchor(f, m.seq, m.anchor,
                          IF m.roots # <<>> THEN m.roots
                          ELSE [i \in 1 .. fw.num_parallel_hchains |-> NoRoot])
    ELSE IF m.ack # 0
    THEN esp_prot_conntrack_update_anchor(fw, m.ack, m.old_spi)
    ELSE [err |-> 0 - 1, fw |-> fw]

\* esp_prot_verify_hchain_element: the token hashed tolerance times gives
\* the active anchor, which then advances to the token, or the next anchor
esp_prot_verify_hchain_element(active_anchor, next_anchor, hash_value, tolerance) ==
    IF HashN(hash_value, tolerance) = active_anchor
    THEN [err |-> 0, active_anchor |-> hash_value]
    ELSE IF next_anchor # NoAnchor /\ HashN(hash_value, tolerance) = next_anchor
    THEN [err |-> 1, active_anchor |-> active_anchor]
    ELSE [err |-> 0 - 1, active_anchor |-> active_anchor]

\* esp_prot_verify_htree_element: the token is a leaf of the tree of the
\* active root or of the next root
esp_prot_verify_htree_element(active_root, next_root, hash_value) ==
    IF hash_value.i > 0 /\ hash_value.c = active_root.c THEN 0
    ELSE IF next_root # NoAnchor /\ hash_value.i > 0
            /\ hash_value.c = next_root.c
    THEN 1
    ELSE 0 - 1

\* the window test that leaves out the packet that follows the last one
InWindowSkipping(fw, esp, t) ==
    /\ u32(esp.seq - t.seq_no) > 1
    /\ u32(esp.seq - t.seq_no) <= fw.window_size

\* the window test with the upper end left out
InWindowStrict(fw, esp, t) ==
    /\ u32(esp.seq - t.seq_no) > 0
    /\ u32(esp.seq - t.seq_no) < fw.window_size

InWindow(fw, esp, t) ==
    /\ u32(esp.seq - t.seq_no) > 0
    /\ u32(esp.seq - t.seq_no) <= fw.window_size

\* a verification that stores the token of every packet of the window as
\* the active anchor, verified or not
esp_prot_conntrack_verify_storing(fw, esp, t) ==
    LET active_hchain == (u32(esp.seq - 1) % t.num_hchains) + 1
        cumulative == t.esp_prot_tfm \in {ESP_PROT_TFM_CUMULATIVE,
                                          ESP_PROT_TFM_PARA_CUMUL}
        num_verify == u32(esp.seq - t.seq_no)
        hc == esp_prot_verify_hchain_element(t.active_anchors[active_hchain],
                                             t.next_anchors[active_hchain],
                                             esp.token, num_verify)
        cached_element == t.hash_buffer[(esp.seq % fw.ring_buffer_size) + 1]
        first ==
            IF t.esp_prot_tfm = ESP_PROT_TFM_TREE
            THEN [err |-> esp_prot_verify_htree_element(
                              t.active_anchors[active_hchain],
                              t.next_anchors[active_hchain], esp.token),
                  how |-> "tree", t |-> t]
            ELSE IF InWindow(fw, esp, t)
            THEN [err |-> hc.err, how |-> "hchain",
                  t |-> [t EXCEPT !.active_anchors[active_hchain] = esp.token]]
            ELSE IF cumulative /\ u32(t.seq_no - esp.seq) > 0
            THEN [err |-> IF /\ cached_element.seq = esp.seq
                             /\ cached_element.packet_hash = packet_hash(esp)
                          THEN 0 ELSE 0 - 1,
                  how |-> "cumulative", t |-> t]
            ELSE [err |-> 0 - 1, how |-> "window", t |-> t]
        Cache(buf, item) ==
            LET k == (item.seq % fw.ring_buffer_size) + 1
            IN IF item.seq > buf[k].seq THEN [buf EXCEPT ![k] = item] ELSE buf
        tracked ==
            IF first.err >= 0 /\ cumulative /\ t.esp_prot_tfm # ESP_PROT_TFM_TREE
               /\ Len(esp.items) > 0
            THEN [first EXCEPT !.t.hash_buffer = Cache(@, esp.items[1])]
            ELSE first
        changed ==
            IF tracked.err > 0
            THEN [tracked EXCEPT
                    !.t.active_anchors[active_hchain] =
                        IF t.esp_prot_tfm = ESP_PROT_TFM_TREE
                        THEN t.next_anchors[active_hchain] ELSE esp.token,
                    !.t.first_active_anchors[active_hchain] =
                        t.next_anchors[active_hchain],
                    !.t.active_roots[active_hchain] =
                        t.next_roots[active_hchain],
                    !.t.next_roots[active_hchain] = NoRoot,
                    !.err = 0]
            ELSE tracked
    IN IF ~fw.hip_esp_protection THEN [err |-> 0, how |-> "off", t |-> t]
       ELSE IF t.esp_prot_tfm > ESP_PROT_TFM_UNUSED THEN changed
       ELSE [err |-> 0, how |-> "unused", t |-> t]

esp_prot_conntrack_verify(fw, esp, t) ==
    LET active_hchain == (u32(esp.seq - 1) % t.num_hchains) + 1
        cumulative == t.esp_prot_tfm \in {ESP_PROT_TFM_CUMULATIVE,
                                          ESP_PROT_TFM_PARA_CUMUL}
        num_verify == u32(esp.seq - t.seq_no)
        hc == esp_prot_verify_hchain_element(t.active_anchors[active_hchain],
                                             t.next_anchors[active_hchain],
                                             esp.token, num_verify)
        cached_element == t.hash_buffer[(esp.seq % fw.ring_buffer_size) + 1]
        first ==
            IF t.esp_prot_tfm = ESP_PROT_TFM_TREE
            THEN [err |-> esp_prot_verify_htree_element(
                              t.active_anchors[active_hchain],
                              t.next_anchors[active_hchain], esp.token),
                  how |-> "tree", t |-> t]
            ELSE IF InWindow(fw, esp, t)
            THEN [err |-> hc.err, how |-> "hchain",
                  t |-> [t EXCEPT !.active_anchors[active_hchain] =
                                      hc.active_anchor]]
            ELSE IF cumulative /\ u32(t.seq_no - esp.seq) > 0
            THEN [err |-> IF /\ cached_element.seq = esp.seq
                             /\ cached_element.packet_hash = packet_hash(esp)
                          THEN 0 ELSE 0 - 1,
                  how |-> "cumulative", t |-> t]
            ELSE [err |-> 0 - 1, how |-> "window", t |-> t]
        Cache(buf, item) ==
            LET k == (item.seq % fw.ring_buffer_size) + 1
            IN IF item.seq > buf[k].seq THEN [buf EXCEPT ![k] = item] ELSE buf
        tracked ==
            IF first.err >= 0 /\ cumulative /\ t.esp_prot_tfm # ESP_PROT_TFM_TREE
               /\ Len(esp.items) > 0
            THEN [first EXCEPT !.t.hash_buffer = Cache(@, esp.items[1])]
            ELSE first
        changed ==
            IF tracked.err > 0
            THEN [tracked EXCEPT
                    !.t.active_anchors[active_hchain] =
                        IF t.esp_prot_tfm = ESP_PROT_TFM_TREE
                        THEN t.next_anchors[active_hchain] ELSE esp.token,
                    !.t.first_active_anchors[active_hchain] =
                        t.next_anchors[active_hchain],
                    !.t.active_roots[active_hchain] =
                        t.next_roots[active_hchain],
                    !.t.next_roots[active_hchain] = NoRoot,
                    !.err = 0]
            ELSE tracked
    IN IF ~fw.hip_esp_protection THEN [err |-> 0, how |-> "off", t |-> t]
       ELSE IF t.esp_prot_tfm > ESP_PROT_TFM_UNUSED THEN changed
       ELSE [err |-> 0, how |-> "unused", t |-> t]

\* the filter of ESP packets: the packet is verified against its esp_tuple
\* and a packet accepted by its token becomes the last one seen
filter_esp_state(fw, esp, t) ==
    LET r == esp_prot_conntrack_verify(fw, esp, t)
        used == (u32(esp.seq - 1) % t.num_hchains) + 1
        t2 == IF r.err = 0 /\ r.how = "hchain"
              THEN [r.t EXCEPT !.seq_no = esp.seq] ELSE r.t
    IN [fw EXCEPT
          !.esp_tuples = {t2},
          !.last = IF r.err # 0 THEN [NoVerdict EXCEPT !.err = r.err, !.how = r.how]
                   ELSE
                   [seq |-> esp.seq, token |-> esp.token, seq_no |-> t.seq_no,
                    active |-> IF t.esp_prot_tfm > ESP_PROT_TFM_UNUSED
                               THEN t.active_anchors[used] ELSE NoAnchor,
                    next |-> IF t.esp_prot_tfm > ESP_PROT_TFM_UNUSED
                             THEN t.next_anchors[used] ELSE NoAnchor,
                    tfm |-> t.esp_prot_tfm, err |-> r.err, how |-> r.how]]

(* Packets that pass the firewall *)

\* the tokens tried on an esp_tuple: the elements of its chains from the
\* anchors it holds to one step beyond the window, and a value of no chain
Tokens(t, window) ==
    LET anchors == {t.active_anchors[k] : k \in 1 .. t.num_hchains}
                   \cup {t.next_anchors[k] : k \in 1 .. t.num_hchains}
    IN {Elem(a.c, a.i + d) : a \in anchors \ {NoAnchor}, d \in 0 .. (window + 1)}
       \cup {NoHashValue}

\* the cumulative items of a packet: the hash of the packet sent before it
CumulativeItems(fw, seq, token) ==
    IF fw.num_linear_elements = 0 THEN {<<>>}
    ELSE {<<[seq |-> u32(seq - 1),
             packet_hash |-> [seq |-> u32(seq - 1),
                              token |-> hash_function(token)]]>>}

EspPackets(fw, t) ==
    UNION {{[seq |-> s, token |-> tok, items |-> it] :
               it \in CumulativeItems(fw, s, tok)} :
           s \in Seqs, tok \in {x \in Tokens(t, fw.window_size) : x.i <= MaxToken}}

daemon == <<hadb, sadb, net, r1gen, defver, esp_prot_active, anchor_db, nenv,
            log, collided, last, units>>

\* the firewall starts with the ESP protection extension switched on
FwInit ==
    /\ hipfw.state = "boot"
    /\ \E tfm \in {ESP_PROT_TFM_PLAIN, ESP_PROT_TFM_PARALLEL,
                   ESP_PROT_TFM_CUMULATIVE, ESP_PROT_TFM_TREE} :
       \E cfg \in 0 .. MaxWindow :
           hipfw' = esp_prot_conntrack_init(hipfw, tfm, cfg)
    /\ UNCHANGED daemon

\* a base exchange passes by: its I2 announces the anchors, its R2 the SPI
\* of the esp_tuple
FwTrackBex ==
    /\ hipfw.state = "running"
    /\ hipfw.esp_tuples = {}
    /\ \E transform \in {ESP_PROT_TFM_UNUSED, hipfw.token_transform} :
         LET anchors == [i \in 1 .. hipfw.num_parallel_hchains |-> Elem(i - 1, 0)]
             r == esp_prot_conntrack_I2_anchor(hipfw, transform, anchors)
         IN hipfw' = [hipfw EXCEPT
                        !.esp_tuples =
                            {[t EXCEPT !.spi = 1] :
                                t \in IF r.err = 0 THEN r.fw.esp_tuples
                                      ELSE {NoEspTuple}}]
    /\ UNCHANGED daemon

\* the anchors an UPDATE carries for an esp_tuple: the first active anchor
\* of every chain with the anchor of the chain that follows it, or anchors
\* the tracker has never seen
UpdateAnchors(t) ==
    (IF \A i \in 1 .. t.num_hchains :
           t.first_active_anchors[i].c + t.num_hchains <= MaxChain
     THEN {[i \in 1 .. t.num_hchains |->
              [transform |-> t.esp_prot_tfm,
               active |-> t.first_active_anchors[i],
               next |-> Elem(t.first_active_anchors[i].c + t.num_hchains, 0)]]}
     ELSE {})
    \cup {[i \in 1 .. t.num_hchains |->
             [transform |-> t.esp_prot_tfm, active |-> NoHashValue,
              next |-> Elem(MaxChain, 0)]]}

\* the roots an UPDATE carries: none, or the root of the link tree of every
\* chain it announces
UpdateRoots(anchors) ==
    {<<>>, [i \in 1 .. Len(anchors) |-> Root(anchors[i].next.c)]}

\* the branches of a light update: from every announced anchor to the
\* active root of its chain, or to no root the tracker holds
UpdateBranches(t, anchors) ==
    {[i \in 1 .. Len(anchors) |->
         [root |-> t.active_roots[i], leaf |-> anchors[i].next]],
     [i \in 1 .. Len(anchors) |->
         [root |-> GarbageRoot, leaf |-> anchors[i].next]]}

NoUpdate ==
    [seq |-> 0, ack |-> 0, esp_info |-> FALSE, old_spi |-> 0, anchor |-> <<>>,
     roots |-> <<>>, branches |-> <<>>]

UpdateIds == 1 .. MaxUpdateId

\* the update ids acknowledged: those of the UPDATE packets and one that
\* none of them has
AckIds == 1 .. (MaxUpdateId + 1)

\* the UPDATE packets of an anchor update and the other combinations of
\* SEQ, ACK, ESP_INFO and anchors
Updates(t) ==
    UNION {{[NoUpdate EXCEPT !.seq = id, !.anchor = a, !.roots = r] :
               r \in UpdateRoots(a)} : id \in UpdateIds, a \in UpdateAnchors(t)}
    \cup {[NoUpdate EXCEPT !.ack = id, !.esp_info = TRUE, !.old_spi = spi] :
             id \in AckIds, spi \in {t.spi, t.spi + 1}}
    \cup {[NoUpdate EXCEPT !.seq = 1, !.ack = a, !.esp_info = a # 0,
                           !.old_spi = t.spi] : a \in {0, 1}}
    \cup {[NoUpdate EXCEPT !.seq = sq, !.ack = 1, !.esp_info = TRUE,
                           !.old_spi = t.spi, !.anchor = a] :
             sq \in {0, 1}, a \in UpdateAnchors(t)}

LightUpdates(t) ==
    UNION {{[NoUpdate EXCEPT !.seq = id, !.anchor = a, !.roots = r,
                             !.branches = b] :
               r \in UpdateRoots(a), b \in UpdateBranches(t, a)} :
           id \in UpdateIds, a \in UpdateAnchors(t)}
    \cup {[NoUpdate EXCEPT !.ack = id, !.esp_info = TRUE, !.old_spi = t.spi] :
             id \in AckIds}

\* the tracker after an UPDATE that left it as after: one more UPDATE has
\* been tracked if it is not as before, and the last packet was no ESP
\* packet
FwPassed(before, after) ==
    [after EXCEPT !.nupd = IF after = before THEN @ ELSE @ + 1,
                  !.last = NoVerdict]

\* a complete anchor update passes by: the first UPDATE that announces the
\* chains that follow the ones in use, and its acknowledgement
FwAnchorUpdate ==
    /\ hipfw.state = "running"
    /\ \E t \in hipfw.esp_tuples :
         /\ t.esp_prot_tfm > ESP_PROT_TFM_UNUSED
         /\ t.next_anchors[1] = NoAnchor
         /\ \E m \in {u \in Updates(t) :
                          /\ conntrack_update_case(u) = "first"
                          /\ u.seq = 1 /\ u.roots # <<>>
                          /\ u.anchor[1].active # NoHashValue} :
              LET first == esp_prot_conntrack_update(hipfw, m, NoRoot)
                  ack == [NoUpdate EXCEPT !.ack = m.seq, !.esp_info = TRUE,
                                          !.old_spi = t.spi]
                  r == esp_prot_conntrack_update(first.fw, ack, NoRoot)
              IN /\ first.err = 0 /\ r.err = 0
                 /\ hipfw' = [r.fw EXCEPT !.last = NoVerdict]
    /\ UNCHANGED daemon

\* an UPDATE passes by
FwUpdate ==
    /\ hipfw.state = "running"
    /\ hipfw.nupd < MaxFwUpdates
    /\ \E t \in hipfw.esp_tuples :
         /\ t.esp_prot_tfm > ESP_PROT_TFM_UNUSED
         /\ \E m \in Updates(t) : \E stack \in {NoRoot, GarbageRoot} :
              LET r == esp_prot_conntrack_update(hipfw, m, stack)
              IN hipfw' = FwPassed(hipfw, r.fw)
    /\ UNCHANGED daemon

\* a light update passes by
FwLightUpdate ==
    /\ hipfw.state = "running"
    /\ hipfw.nupd < MaxFwUpdates
    /\ \E t \in hipfw.esp_tuples :
         /\ t.esp_prot_tfm > ESP_PROT_TFM_UNUSED
         /\ \E m \in LightUpdates(t) :
              LET r == esp_prot_conntrack_lupdate(hipfw, m)
              IN hipfw' = FwPassed(hipfw, r.fw)
    /\ UNCHANGED daemon

\* an ESP packet passes by
FwEsp ==
    /\ hipfw.state = "running"
    /\ \E t \in hipfw.esp_tuples : \E esp \in EspPackets(hipfw, t) :
         hipfw' = filter_esp_state(hipfw, esp, t)
    /\ UNCHANGED daemon

----------------------------------------------------------------------------
(* The renewal of the local anchor, libhipl/esp_prot_hipd_msg.c: the         *)
(* firewall tells the daemon by user messages that it has set up a next     *)
(* hash chain and that it has switched to it.                               *)

\* the anchor of the hash chain the firewall of a host sets up after the
\* one of the base exchange
NextLocalAnchors(h) == {10 * h + 1}

\* the firewall of host h protects an outbound SA towards the peer
FwHoldsSA(h) == \E s \in sadb[h] : s.dir = "out" /\ s.peer = Peer(h)

\* the lengths of the hash items of those chains
HashItemLengths == {1, 2}

\* the user messages HIP_MSG_TRIGGER_UPDATE of the firewall of host h
TriggerUpdateMsgs(h) ==
    {[local_hit |-> h, peer_hit |-> Peer(h), esp_prot_tfm |-> ESP_PROT_TFM_HCHAIN,
      hash_item_length |-> l, anchor |-> a, root_length |-> 0,
      soft_update |-> su] :
        l \in HashItemLengths, a \in NextLocalAnchors(h), su \in BOOLEAN}

\* the user messages HIP_MSG_ANCHOR_CHANGE of the firewall of host h
AnchorChangeMsgs(h) ==
    {[local_hit |-> h, peer_hit |-> Peer(h), esp_prot_tfm |-> ESP_PROT_TFM_HCHAIN,
      direction |-> d, anchor |-> a] :
        d \in {"HIP_SPI_DIRECTION_OUT", "HIP_SPI_DIRECTION_IN"},
        a \in NextLocalAnchors(h) \cup {anchor_db_get_anchor(h)}}

\* esp_prot_handle_trigger_update_msg: the hash item length of the message
\* is stored, then the update anchor must be unset and takes the anchor of
\* the message; a soft update is announced by a light UPDATE
esp_prot_handle_trigger_update_msg(db, msg) ==
    LET entry == hip_hadb_find_byhits(db, msg.peer_hit, msg.local_hit)
        e1 == [entry EXCEPT !.hash_item_length = msg.hash_item_length]
    IN IF entry = NoHA THEN [err |-> 0 - 1, e |-> entry, ops |-> {}]
       ELSE IF entry.esp_prot_transform # msg.esp_prot_tfm
       THEN [err |-> 0 - 1, e |-> entry, ops |-> {}]
       ELSE IF e1.esp_local_update_anchor # 0
       THEN [err |-> 0 - 1, e |-> e1, ops |-> {}]
       ELSE [err |-> 0,
             e |-> [e1 EXCEPT !.esp_local_update_anchor = msg.anchor,
                              !.esp_root_length = msg.root_length],
             ops |-> IF msg.soft_update THEN {"send_light_update"} ELSE {}]

\* esp_prot_handle_anchor_change_msg: for the outbound direction the anchor
\* of the message must be the update anchor, which becomes the local anchor
esp_prot_handle_anchor_change_msg(db, msg) ==
    LET entry == hip_hadb_find_byhits(db, msg.peer_hit, msg.local_hit)
    IN IF entry = NoHA THEN [err |-> 0 - 1, e |-> entry, ops |-> {}]
       ELSE IF entry.esp_prot_transform # msg.esp_prot_tfm
       THEN [err |-> 0 - 1, e |-> entry, ops |-> {}]
       ELSE IF msg.direction = "HIP_SPI_DIRECTION_OUT"
       THEN (IF entry.esp_local_update_anchor # msg.anchor
             THEN [err |-> 0 - 1, e |-> entry, ops |-> {}]
             ELSE [err |-> 0,
                   e |-> [entry EXCEPT
                             !.esp_local_anchor = entry.esp_local_update_anchor,
                             !.esp_local_update_anchor = 0],
                   ops |-> {"anchor_change"}])
       ELSE [err |-> 0 - 1, e |-> entry, ops |-> {}]

----------------------------------------------------------------------------
(* The cache of local addresses, libhipl/netdev.c *)

\* the longest batch of netlink messages one read of the socket returns
MaxBatch == 2

\* ticks of the maintenance loop between the last address change and the
\* locator UPDATE
HIP_ADDRESS_CHANGE_WAIT_INTERVAL == 3

\* the network interfaces of the host
Interfaces == {1, 2}

\* the addresses the kernel reports: an IPv4 address, an IPv6 address and
\* the IPv6 loopback address
LocalAddrs ==
    {[sa_family |-> "AF_INET", a |-> 1], [sa_family |-> "AF_INET6", a |-> 2],
     [sa_family |-> "AF_INET6", a |-> 0]}

\* the netlink messages of the address socket
NetlinkMsgs ==
    {[nlmsg_type |-> "RTM_NEWLINK", ifindex |-> 1,
      addr |-> [sa_family |-> "AF_INET6", a |-> 2]],
     [nlmsg_type |-> "RTM_NEWADDR", ifindex |-> 1,
      addr |-> [sa_family |-> "AF_PACKET", a |-> 3]]}
    \cup {[nlmsg_type |-> t, ifindex |-> i, addr |-> a] :
             t \in {"RTM_NEWADDR", "RTM_DELADDR"}, i \in Interfaces,
             a \in LocalAddrs}

\* the batches of netlink messages of at most n messages
RECURSIVE Batches(_)
Batches(n) ==
    IF n = 0 THEN {<<>>}
    ELSE LET shorter == Batches(n - 1)
         IN shorter \cup {<<m>> \o b : m \in NetlinkMsgs,
                                       b \in {x \in shorter : Len(x) = n - 1}}

\* the globals of netdev.c after hip_netdev_init with an empty cache; since
\* counts the ticks since the cache last changed and update tells whether
\* the last step sent the locators to the peers
NetdevBoot ==
    [addresses |-> {}, address_change_time_counter |-> 0 - 1,
     hip_wait_addr_changes_to_stabilize |-> TRUE, white_list |-> {},
     since |-> HIP_ADDRESS_CHANGE_WAIT_INTERVAL + 1, update |-> FALSE]

\* netdev_is_in_white_list
netdev_is_in_white_list(nd, ifindex) == ifindex \in nd.white_list

\* filter_address: FA_IGNORE for the loopback address
filter_address(addr) == ~(addr.sa_family = "AF_INET6" /\ addr.a = 0)

\* the entry an address is cached as: an IPv4 address is kept in the IPv6
\* mapped format
CachedAs(addr, ifindex) ==
    [a |-> addr.a, mapped |-> (addr.sa_family = "AF_INET"), if_index |-> ifindex]

\* hip_exists_address_in_list: a mapped entry is compared as an IPv4
\* address, an entry that is not mapped matches an IPv6 address only
hip_exists_address_in_list(nd, addr, ifindex) ==
    \E n \in nd.addresses :
        /\ n.if_index = ifindex \/ ifindex = 0 - 1
        /\ \/ n.mapped /\ addr.sa_family = "AF_INET" /\ n.a = addr.a
           \/ ~n.mapped /\ addr.sa_family = "AF_INET6" /\ n.a = addr.a

\* hip_add_address_to_list: the cache is a hash table keyed by the address,
\* the new entry takes the place of an entry of the same address
hip_add_address_to_list(nd, addr, ifindex) ==
    LET n == CachedAs(addr, ifindex)
    IN IF hip_exists_address_in_list(nd, addr, ifindex) THEN nd
       ELSE IF ~filter_address(addr) THEN nd
       ELSE [nd EXCEPT !.addresses =
                {x \in @ : ~(x.a = n.a /\ x.mapped = n.mapped)} \cup {n}]

\* delete_address_from_list with an address: every entry of the address
\* goes, whatever its interface
delete_address_from_list(nd, addr, ifindex) ==
    LET n == CachedAs(addr, ifindex)
    IN [nd EXCEPT !.addresses =
           {x \in @ : ~(x.a = n.a /\ x.mapped = n.mapped)}]

\* update_address_list
update_address_list(nd, addr, is_add, interface_index) ==
    LET addr_exists == hip_exists_address_in_list(nd, addr, interface_index)
    IN IF (is_add /\ addr_exists) \/ (~is_add /\ ~addr_exists) THEN nd
       ELSE IF is_add THEN hip_add_address_to_list(nd, addr, interface_index)
       ELSE delete_address_from_list(nd, addr, interface_index)

\* a variant of the restart that leaves a running countdown alone
address_change_restart_once(nd) ==
    IF nd.address_change_time_counter >= 0 THEN nd
    ELSE [nd EXCEPT !.address_change_time_counter =
             IF nd.hip_wait_addr_changes_to_stabilize
             THEN HIP_ADDRESS_CHANGE_WAIT_INTERVAL ELSE 1]

\* hip_netdev_event after update_address_list: the countdown to the locator
\* UPDATE starts again
address_change_restart(nd) ==
    [nd EXCEPT !.address_change_time_counter =
        IF nd.hip_wait_addr_changes_to_stabilize
        THEN HIP_ADDRESS_CHANGE_WAIT_INTERVAL ELSE 1]

\* the messages of hip_netdev_event that reach update_address_list: address
\* messages of a listed interface and of an IP family
IsAddressEvent(nd, m) ==
    /\ m.nlmsg_type \in {"RTM_NEWADDR", "RTM_DELADDR"}
    /\ ~(nd.white_list # {} /\ ~netdev_is_in_white_list(nd, m.ifindex))
    /\ m.addr.sa_family \in {"AF_INET", "AF_INET6"}

\* hip_netdev_event: the loop over the messages of one batch; a discarded
\* address change leaves the loop by out_err
RECURSIVE hip_netdev_event(_, _)
hip_netdev_event(nd, msgs) ==
    IF msgs = <<>> THEN nd
    ELSE LET m == Head(msgs)
             is_add == (m.nlmsg_type = "RTM_NEWADDR")
             exists == hip_exists_address_in_list(nd, m.addr, m.ifindex)
         IN IF ~IsAddressEvent(nd, m) THEN hip_netdev_event(nd, Tail(msgs))
            ELSE IF (exists /\ is_add) \/ (~exists /\ ~is_add) THEN nd
            ELSE hip_netdev_event(
                     address_change_restart(
                         update_address_list(nd, m.addr, is_add, m.ifindex)),
                     Tail(msgs))

\* the periodic maintenance of the daemon: at zero the locators go to every
\* peer and the countdown stops, above zero it counts down
address_change_maintenance(nd) ==
    IF nd.address_change_time_counter = 0
    THEN [nd EXCEPT !.address_change_time_counter = 0 - 1, !.update = TRUE]
    ELSE IF nd.address_change_time_counter > 0
    THEN [nd EXCEPT !.address_change_time_counter = @ - 1, !.update = FALSE]
    ELSE [nd EXCEPT !.update = FALSE]

----------------------------------------------------------------------------
(* HMAC verification of a control packet, libhipl/input.c *)

\* the integrity keys of the model
HmacKeys == {1, 2}

\* the contents of a packet in front of its HMAC parameter
Bodies == {1, 2}

\* the offsets the HMAC parameter is found at
HmacOffsets == {40, 48}

\* the bytes that follow the start of the HMAC parameter: the parameter
\* alone, or the parameter and a signature
HmacTails == {24, 64}

\* the checksums of the packets; the header field has 16 bits
Checksums == {0, 7, 263}

\* hip_get_param: a packet without the parameter
NoParam == [off |-> 0, hmac_data |-> 0]

\* hip_write_hmac: the digest of buf_len bytes of the buffer under a key; the
\* bytes hold the length field and the checksum of the header
hip_write_hmac(hmac_key, buffer, buf_len) ==
    [key |-> hmac_key, body |-> buffer.body, total_len |-> buffer.total_len,
     checksum |-> buffer.checksum, buf_len |-> buf_len]

\* verify_hmac: 0 if the calculated HMAC is the given one
verify_hmac(buffer, buf_len, hmac, hmac_key) ==
    IF hip_write_hmac(hmac_key, buffer, buf_len) # hmac THEN 0 - 22 ELSE 0

\* the packets that reach the verification: the sender put an HMAC over a
\* body under a key of its own when the packet ended at the parameter and
\* the checksum was zero; a packet may lack the parameter
HmacMsgs ==
    {[body |-> b, total_len |-> 40, checksum |-> c, hmac |-> NoParam] :
        b \in Bodies, c \in Checksums}
    \cup {[body |-> b, total_len |-> off + tail, checksum |-> c,
           hmac |-> [off |-> off,
                     hmac_data |-> hip_write_hmac(
                         k, [body |-> signed, total_len |-> off, checksum |-> 0],
                         off)]] :
             b \in Bodies, signed \in Bodies, off \in HmacOffsets,
             tail \in HmacTails, c \in Checksums, k \in HmacKeys}

\* a variant that restores the length and the checksum on every return path
hip_verify_packet_hmac_general_restoring(msg, crypto_key) ==
    IF msg.hmac = NoParam THEN [err |-> 0 - 42, msg |-> msg]
    ELSE LET len == msg.hmac.off
             cut == [msg EXCEPT !.checksum = 0, !.total_len = len]
         IN [err |-> IF verify_hmac(cut, cut.total_len, msg.hmac.hmac_data,
                                    crypto_key) # 0 THEN 0 - 1 ELSE 0,
             msg |-> msg]

\* hip_verify_packet_hmac_general: the checksum is kept in eight bits while
\* the length is cut to the start of the HMAC parameter
hip_verify_packet_hmac_general(msg, crypto_key) ==
    IF msg.hmac = NoParam THEN [err |-> 0 - 42, msg |-> msg]
    ELSE LET orig_len == msg.total_len
             orig_checksum == msg.checksum % 256
             len == msg.hmac.off
             cut == [msg EXCEPT !.checksum = 0, !.total_len = len]
         IN IF verify_hmac(cut, cut.total_len, msg.hmac.hmac_data,
                           crypto_key) # 0
            THEN [err |-> 0 - 1, msg |-> cut]
            ELSE [err |-> 0,
                  msg |-> [cut EXCEPT !.total_len = orig_len,
                                      !.checksum = orig_checksum]]

\* no packet is under verification
HmacInputBoot ==
    [msg |-> [body |-> 1, total_len |-> 40, checksum |-> 0, hmac |-> NoParam],
     crypto_key |-> 1, err |-> 0, called |-> FALSE,
     received |-> [body |-> 1, total_len |-> 40, checksum |-> 0,
                   hmac |-> NoParam]]

----------------------------------------------------------------------------
(* The inbound path of the userspace IPsec, hipfw/user_ipsec_esp.c *)

\* length of the integrity check value of an ESP packet
ICV_LENGTH == 12

\* the ESP suites of an SA
EspSuites ==
    {"HIP_ESP_AES_SHA1", "HIP_ESP_3DES_SHA1", "HIP_ESP_3DES_MD5",
     "HIP_ESP_BLOWFISH_SHA1", "HIP_ESP_NULL_SHA1", "HIP_ESP_NULL_MD5"}

\* the digest and the cipher a suite names
SuiteDigest(ealg) ==
    IF ealg \in {"HIP_ESP_3DES_MD5", "HIP_ESP_NULL_MD5"} THEN "MD5" ELSE "SHA1"

SuiteCipher(ealg) ==
    CASE ealg \in {"HIP_ESP_3DES_SHA1", "HIP_ESP_3DES_MD5"} -> "3DES"
      [] ealg = "HIP_ESP_BLOWFISH_SHA1" -> "BLOWFISH"
      [] ealg = "HIP_ESP_AES_SHA1" -> "AES"
      [] OTHER -> "NULL"

\* the length of the initialisation vector of a cipher
IvLen(cipher) ==
    CASE cipher \in {"3DES", "BLOWFISH"} -> 8
      [] cipher = "AES" -> 16
      [] OTHER -> 0

\* the keys of the SAs, 0 for a key that is missing
SaKeys == {1, 2}
NoSaKey == 0

\* esp_prot_get_data_offset of an SA without the protection extension: the
\* ESP header
esp_prot_get_data_offset(entry) == 8

\* the SAs of the inbound direction
SaEntries ==
    {[ealg |-> a, auth_key |-> ak, enc_key |-> ek] :
        a \in EspSuites, ak \in {NoSaKey, 1}, ek \in {NoSaKey, 1}}

\* HMAC of OpenSSL over the head of a packet
HMAC(md, key, data) == [md |-> md, key |-> key, data |-> data]

\* the encryption the sender of a packet did and its reversal
Encrypted(cipher, key, plain) == [cipher |-> cipher, key |-> key, plain |-> plain]

Decrypted(cipher, key, data) ==
    IF cipher = "NULL" THEN (IF data.cipher = "NULL" THEN data.plain ELSE "garbage")
    ELSE IF data.cipher = cipher /\ data.key = key THEN data.plain
    ELSE "garbage"

\* the ESP packets that arrive for an SA: the sender used a suite and keys of
\* its own, the payload may have been replaced after the ICV was computed,
\* and a packet may end before its ICV is complete
EspIn ==
    {[data |-> Encrypted(SuiteCipher(s), ek, pl),
      icv |-> HMAC(SuiteDigest(s), ak, Encrypted(SuiteCipher(s), ek, signed)),
      len |-> IF short THEN 10
              ELSE esp_prot_get_data_offset(0) + IvLen(SuiteCipher(s)) + 16
                   + ICV_LENGTH] :
        s \in EspSuites, ak \in SaKeys, ek \in {1}, pl \in {"payload", "other"},
        signed \in {"payload"}, short \in BOOLEAN}

\* what lies behind the packet in the buffer: bytes that continue the
\* digest, other bytes, or no memory at all
Behind == {"match", "differ", "fault"}

\* the output buffer before payload_decrypt wrote to it
NoOut == [payload |-> "untouched", cipher |-> "none"]

\* a variant that decrypts the payload before it looks at the ICV
payload_decrypt_then_authenticate(in, in_len, entry, behind) ==
    LET out == [payload |-> Decrypted(SuiteCipher(entry.ealg), entry.enc_key,
                                      in.data),
                cipher |-> SuiteCipher(entry.ealg)]
    IN IF in.icv = HMAC(SuiteDigest(entry.ealg), entry.auth_key, in.data)
       THEN [err |-> 0, fault |-> FALSE, out |-> out, out_len |-> 16]
       ELSE [err |-> 1, fault |-> FALSE, out |-> out, out_len |-> 0]

\* payload_decrypt: the authentication by the digest of the suite, then the
\* decryption by its cipher.  in_len - alen is a 16 bit number: the digest of
\* a packet shorter than the ICV runs over the memory behind it.  An MD5
\* suite compares the whole digest with the twelve bytes of the ICV and the
\* four bytes behind the packet.
payload_decrypt(in, in_len, entry, behind) ==
    LET esp_data_offset == esp_prot_get_data_offset(entry)
        alen == ICV_LENGTH
        elen == (in_len - alen) % 65536
        md == SuiteDigest(entry.ealg)
        cipher == SuiteCipher(entry.ealg)
        iv_len == IvLen(cipher)
        reject(e) == [err |-> e, fault |-> FALSE, out |-> NoOut, out_len |-> 0]
        segv == [err |-> 0 - 1, fault |-> TRUE, out |-> NoOut, out_len |-> 0]
        hmac_md == HMAC(md, entry.auth_key, in.data)
        authentic ==
            IF md = "MD5" THEN in.icv = hmac_md /\ behind = "match"
            ELSE in.icv = hmac_md
    IN IF entry.ealg = "HIP_ESP_BLOWFISH_SHA1" THEN reject(0 - 1)
       ELSE IF entry.auth_key = NoSaKey THEN reject(0 - 1)
       ELSE IF in_len < alen
       THEN (IF behind = "fault" THEN segv ELSE reject(1))
       ELSE IF md = "MD5" /\ behind = "fault" THEN segv
       ELSE IF ~authentic THEN reject(1)
       ELSE IF cipher # "NULL" /\ entry.enc_key = NoSaKey THEN reject(0 - 1)
       ELSE [err |-> 0, fault |-> FALSE,
             out |-> [payload |-> Decrypted(cipher, entry.enc_key, in.data),
                      cipher |-> cipher],
             out_len |-> (elen - esp_data_offset - iv_len) % 65536]

\* hip_beet_mode_input: the decrypted data goes behind the IPv6 header of
\* the HITs, which is written once the next header is known
hip_beet_mode_input(in, entry, behind) ==
    LET next_hdr_offset == 40
        d == payload_decrypt(in, in.len, entry, behind)
    IN IF d.err # 0
       THEN [err |-> 0 - 1, fault |-> d.fault, decrypted_packet |-> d.out,
             header |-> FALSE, decrypted_packet_len |-> next_hdr_offset]
       ELSE [err |-> 0, fault |-> FALSE, decrypted_packet |-> d.out,
             header |-> TRUE,
             decrypted_packet_len |-> next_hdr_offset + d.out_len]

\* no packet has arrived for the SA
EspInputBoot ==
    [entry |-> [ealg |-> "HIP_ESP_AES_SHA1", auth_key |-> 1, enc_key |-> 1],
     in |-> [data |-> Encrypted("AES", 1, "payload"),
             icv |-> HMAC("SHA1", 1, Encrypted("AES", 1, "payload")),
             len |-> 52],
     behind |-> "differ", err |-> 0, fault |-> FALSE,
     decrypted_packet |-> NoOut, header |-> FALSE,
     decrypted_packet_len |-> 0, called |-> FALSE]

----------------------------------------------------------------------------
(* Actions *)

InitDaemon ==
    /\ hadb = [h \in Hosts |-> {}]
    /\ sadb = [h \in Hosts |-> {}]
    /\ net = {}
    /\ r1gen = [h \in Hosts |-> 0]
    /\ defver \in {HIP_V1, HIP_V2}
    /\ esp_prot_active \in BOOLEAN
    /\ anchor_db \in IF esp_prot_active THEN [Hosts -> AnchorDbSizes]
                     ELSE {[h \in Hosts |-> 0]}
    /\ nenv = 0
    /\ log = <<>>
    /\ collided = FALSE
    /\ last = NoLast

\* the units beside the base exchange at rest
InitUnits ==
    /\ netdev = NetdevBoot
    /\ esp_input = EspInputBoot
    /\ hmac_input = HmacInputBoot

Init == InitDaemon /\ hipfw = FwBoot /\ InitUnits

Env == nenv < MaxEnv /\ nenv' = nenv + 1

Trigger(h) ==
    LET r == netdev_trigger_bex(h, Peer(h))
    IN /\ hadb' = [hadb EXCEPT ![h] = r.db]
       /\ net' = net \cup r.out
       /\ collided' = (collided \/ Collision(hadb'))
       /\ last' = NoLast
       /\ UNCHANGED <<sadb, r1gen, defver, esp_prot_active, anchor_db, hipfw, units,
                       log>>

\* netdev_handle_acquire: the kernel asks for an SA towards the peer
Acquire(h) ==
    /\ hip_hadb_find_byhits(hadb[h], Peer(h), h).state # "ESTABLISHED"
    /\ Trigger(h)
    /\ IF hadb[h] = {} THEN UNCHANGED nenv ELSE Env

\* hip_netdev_trigger_bex_msg: a user message asks for a base exchange
TriggerBexMsg(h) == Trigger(h) /\ Env

Deliver(p) ==
    /\ p \in net
    /\ \E tab \in {"v1", "v2"} : Receive(p.dst, p, tab, FALSE)
    /\ UNCHANGED <<r1gen, defver, esp_prot_active, hipfw, units, nenv>>

Forge(h) ==
    /\ Env
    /\ \E p \in ForgedPackets(h) : \E tab \in {"v1", "v2"} : Receive(h, p, tab, TRUE)
    /\ UNCHANGED <<r1gen, defver, esp_prot_active, hipfw, units>>

\* the peer of h renews its anchor over the established association: h
\* receives a first UPDATE.  The first renewal of a peer is an event of the
\* environment, the renewals that follow it continue that event.
AnchorUpdate(h) ==
    LET e == hip_hadb_find_byhits(hadb[h], Peer(h), h)
    IN /\ e.state = "ESTABLISHED"
       /\ e.esp_prot_transform > ESP_PROT_TFM_UNUSED
       /\ IF e.esp_peer_update_anchor = 0 THEN Env ELSE UNCHANGED nenv
       /\ \E p \in FirstUpdates(h) : Receive(h, p, "v1", TRUE)
       /\ UNCHANGED <<r1gen, defver, esp_prot_active, hipfw, units>>

\* the maintenance loop resends a buffered packet; a slot that has used up
\* its retransmissions is cleared
Retransmit(h) ==
    \E e \in hadb[h] : \E s \in e.retrans :
        LET left == IF s.count > 1
                    THEN {[s EXCEPT !.count = s.count - 1]} ELSE {}
            e2 == [e EXCEPT !.retrans = (@ \ {s}) \cup left]
        IN /\ s.count > 0
           /\ Env
           /\ hadb' = [hadb EXCEPT ![h] = (@ \ {e}) \cup {e2}]
           /\ net' = net \cup {s.buf}
           /\ last' = NoLast
           /\ UNCHANGED <<sadb, r1gen, defver, esp_prot_active, anchor_db,
                           hipfw, units, log, collided>>

\* the maintenance tick replaces the precomputed R1s of a host
Rotate(h) ==
    /\ r1gen[h] < MaxGen
    /\ Env
    /\ r1gen' = [r1gen EXCEPT ![h] = @ + 1]
    /\ last' = NoLast
    /\ UNCHANGED <<hadb, sadb, net, defver, esp_prot_active, anchor_db, hipfw, units,
                    log, collided>>

\* what the steps of the units leave alone
exchange == <<hadb, sadb, net, r1gen, defver, esp_prot_active, anchor_db,
              hipfw, nenv, log, collided, last>>

\* the netlink socket is readable: hip_netdev_event handles one batch
NetlinkEvent ==
    /\ \E msgs \in Batches(MaxBatch) \ {<<>>} :
           LET nd == hip_netdev_event(netdev, msgs)
           IN netdev' = [nd EXCEPT
                  !.since = IF nd.addresses # netdev.addresses THEN 0 ELSE @,
                  !.update = FALSE]
    /\ UNCHANGED <<exchange, esp_input, hmac_input>>

\* one tick of the maintenance loop
MaintenanceTick ==
    /\ netdev' = [address_change_maintenance(netdev) EXCEPT
           !.since = IF @ > HIP_ADDRESS_CHANGE_WAIT_INTERVAL THEN @ ELSE @ + 1]
    /\ UNCHANGED <<exchange, esp_input, hmac_input>>

\* a handler verifies the HMAC of the packet it received
VerifyPacketHmac ==
    /\ ~hmac_input.called
    /\ LET r == hip_verify_packet_hmac_general(hmac_input.msg,
                                               hmac_input.crypto_key)
       IN hmac_input' = [hmac_input EXCEPT !.msg = r.msg, !.err = r.err,
                                           !.called = TRUE]
    /\ UNCHANGED <<exchange, netdev, esp_input>>

\* the firewall hands an ESP packet of the SA to hip_beet_mode_input
EspInput ==
    /\ \E in \in EspIn : \E behind \in Behind :
           LET r == hip_beet_mode_input(in, esp_input.entry, behind)
           IN esp_input' = [entry |-> esp_input.entry, in |-> in,
                            behind |-> behind, err |-> r.err,
                            fault |-> r.fault,
                            decrypted_packet |-> r.decrypted_packet,
                            header |-> r.header,
                            decrypted_packet_len |-> r.decrypted_packet_len,
                            called |-> TRUE]
    /\ UNCHANGED <<exchange, netdev, hmac_input>>

\* a user message of the firewall of host h arrives at the daemon
UserMsg(h, type, r) ==
    /\ hadb' = [hadb EXCEPT
                   ![h] = IF r.e = NoHA THEN @
                          ELSE {x \in @ : ~(x.hit_peer = r.e.hit_peer
                                            /\ x.hit_our = r.e.hit_our)}
                               \cup {r.e}]
    /\ last' = [NoLast EXCEPT !.host = h, !.type = type, !.peer = Peer(h),
                              !.error = IF r.err = 0 THEN "ok" ELSE "rejected",
                              !.ops = r.ops]
    /\ UNCHANGED <<sadb, net, r1gen, defver, esp_prot_active, anchor_db, hipfw,
                    nenv, log, collided, units>>

TriggerUpdateMsg(h) ==
    \E msg \in TriggerUpdateMsgs(h) :
        FwHoldsSA(h) /\
        UserMsg(h, "TRIGGER_UPDATE",
                esp_prot_handle_trigger_update_msg(hadb[h], msg))

AnchorChangeMsg(h) ==
    \E msg \in AnchorChangeMsgs(h) :
        FwHoldsSA(h) /\
        UserMsg(h, "ANCHOR_CHANGE",
                esp_prot_handle_anchor_change_msg(hadb[h], msg))

Next ==
    \/ \E h \in Hosts : Acquire(h)
    \/ \E h \in Hosts : TriggerBexMsg(h)
    \/ \E p \in net : Deliver(p)
    \/ \E h \in Hosts : Retransmit(h)
    \/ \E h \in Hosts : Rotate(h)
    \/ \E h \in Hosts : Forge(h)
    \/ \E h \in Hosts : AnchorUpdate(h)

Spec == Init /\ [][Next]_vars

----------------------------------------------------------------------------
(* Scenario specifications *)

\* a run in which every packet comes from a host and no timer fires
NextBex ==
    \/ \E h \in Hosts : Acquire(h)
    \/ \E p \in net : Deliver(p)

SpecBex == Init /\ [][NextBex]_vars

\* a run in which every packet comes from a host and the maintenance loop
\* resends what is buffered
NextTimer ==
    \/ \E h \in Hosts : Acquire(h)
    \/ \E p \in net : Deliver(p)
    \/ \E h \in Hosts : Retransmit(h)

SpecTimer == Init /\ [][NextTimer]_vars

\* a run in which every packet of the base exchange comes from a host and
\* the peers renew their anchors
NextUpdate ==
    \/ \E h \in Hosts : Acquire(h)
    \/ \E p \in net : Deliver(p)
    \/ \E h \in Hosts : AnchorUpdate(h)

SpecUpdate == Init /\ [][NextUpdate]_vars

\* a run of the firewall: it starts, tracks one base exchange and filters
\* the ESP packets of the association
NextFw == FwInit \/ FwTrackBex \/ FwAnchorUpdate \/ FwEsp

InitFw == Init /\ defver = HIP_V1 /\ ~esp_prot_active

SpecFw == InitFw /\ [][NextFw]_vars

\* the firewall that tracks anchor updates: it has started with hash chains
\* or hash trees and a window of one packet
NextFwUpdate == FwTrackBex \/ FwUpdate \/ FwLightUpdate \/ FwEsp

InitFwUpdate ==
    /\ InitDaemon /\ defver = HIP_V1 /\ ~esp_prot_active /\ InitUnits
    /\ hipfw \in {esp_prot_conntrack_init(FwBoot, tfm, 1) :
                     tfm \in {ESP_PROT_TFM_PLAIN, ESP_PROT_TFM_TREE}}

SpecFwUpdate == InitFwUpdate /\ [][NextFwUpdate]_vars

\* the address cache of one host: batches of netlink messages and ticks of
\* the maintenance loop, with and without the wait for the addresses to
\* stabilize and with and without a white list of interfaces
NextNetdev == NetlinkEvent \/ MaintenanceTick

InitNetdev ==
    /\ InitDaemon /\ defver = HIP_V1 /\ ~esp_prot_active /\ hipfw = FwBoot
    /\ netdev \in {[NetdevBoot EXCEPT !.hip_wait_addr_changes_to_stabilize = w,
                                      !.white_list = l] :
                      w \in BOOLEAN, l \in {{}, {1}}}
    /\ esp_input = EspInputBoot
    /\ hmac_input = HmacInputBoot

SpecNetdev == InitNetdev /\ [][NextNetdev]_vars

\* the HMAC verification of one received packet under one key
InitHmac ==
    /\ InitDaemon /\ defver = HIP_V1 /\ ~esp_prot_active /\ hipfw = FwBoot
    /\ netdev = NetdevBoot
    /\ esp_input = EspInputBoot
    /\ hmac_input \in {[HmacInputBoot EXCEPT !.msg = m, !.received = m,
                                             !.crypto_key = k] :
                          m \in HmacMsgs, k \in HmacKeys}

SpecHmac == InitHmac /\ [][VerifyPacketHmac]_vars

\* the inbound ESP packets of one SA
InitEsp ==
    /\ InitDaemon /\ defver = HIP_V1 /\ ~esp_prot_active /\ hipfw = FwBoot
    /\ netdev = NetdevBoot
    /\ esp_input \in {[EspInputBoot EXCEPT !.entry = e] : e \in SaEntries}
    /\ hmac_input = HmacInputBoot

SpecEsp == InitEsp /\ [][EspInput]_vars

\* a base exchange with the ESP protection extension that host A starts and
\* the user messages of the two firewalls about their next hash chains
NextLocalUpdate ==
    \/ Acquire(HIT_A)
    \/ \E p \in net : Deliver(p)
    \/ \E h \in Hosts : TriggerUpdateMsg(h)
    \/ \E h \in Hosts : AnchorChangeMsg(h)

InitLocalUpdate ==
    /\ Init /\ defver = HIP_V1 /\ esp_prot_active
    /\ anchor_db = [h \in Hosts |-> esp_prot_num_parallel_hchains]

SpecLocalUpdate == InitLocalUpdate /\ [][NextLocalUpdate]_vars

----------------------------------------------------------------------------
(* Observations *)

\* the association host h holds with its peer, NoHA if none
HA(h) == hip_hadb_find_byhits(hadb[h], Peer(h), h)

HasSA(h, dir) == \E s \in sadb[h] : s.dir = dir /\ s.peer = Peer(h)

CheckHandlers == {"hip_check_i1", "hip_check_r1", "hip_check_i2", "hip_check_r2"}

\* the state names of the transition table: a host without an association
\* is in UNASSOC
TableState(s) == IF s = "NONE" THEN "UNASSOCIATED" ELSE s

\* the transitions of the control-plane table, as pairs of states
TransitionTable ==
    {<<"UNASSOCIATED", "I1_SENT">>, <<"I1_SENT", "I2_SENT">>,
     <<"I1_SENT", "UNASSOCIATED">>, <<"UNASSOCIATED", "R2_SENT">>,
     <<"I2_SENT", "ESTABLISHED">>, <<"R2_SENT", "ESTABLISHED">>,
     <<"CLOSING", "CLOSED">>, <<"CLOSED", "UNASSOCIATED">>}
        \cup {<<s, "CLOSING">> : s \in AllStates}

----------------------------------------------------------------------------
(* Claims *)

\* C1: when a host that holds no association with the sender receives an I2
\* that passes puzzle, HMAC and signature verification, the association it
\* holds after processing that I2 is in state R2_SENT.
C1_ValidI2LeavesR2Sent ==
    (/\ last.type = "I2"
     /\ last.state \in {"NONE", "UNASSOCIATED"}
     /\ last.error = "ok")
        => HA(last.host).state = "R2_SENT"

\* C2: every change of the state of an association is a transition of the
\* control-plane table; no state is skipped.
C2_TransitionsFollowTable ==
    [][\A h \in Hosts :
          TableState(HA(h).state)' # TableState(HA(h).state)
              => <<TableState(HA(h).state), TableState(HA(h).state)'>>
                     \in TransitionTable]_vars

\* C3: in a run without loss, forged packets or timer events, after exactly
\* the four packets I1, R1, I2, R2 have been delivered both associations are
\* ESTABLISHED and each side has an inbound and an outbound SA.
C3_FourPacketsEstablish ==
    (log = <<"I1", "R1", "I2", "R2">> /\ nenv = 0)
        => \A h \in Hosts : /\ HA(h).state = "ESTABLISHED"
                             /\ HasSA(h, "in")
                             /\ HasSA(h, "out")

C3_Witness ==
    /\ log = <<"I1", "R1", "I2", "R2">>
    /\ nenv = 0
    /\ last.type = "R2"
    /\ "sa_create" \in last.ops
    /\ \A h \in Hosts : HA(h).state = "ESTABLISHED" /\ HasSA(h, "in")

\* C4: a control packet (R1, I2 or R2) that is rejected during the check
\* phase leaves every existing association of the receiving host exactly
\* as it was before the packet arrived.
C4_CheckRejectLeavesHA ==
    [][(/\ last'.type \in {"R1", "I2", "R2"}
        /\ last'.phase \in CheckHandlers
        /\ last'.state # "NONE")
           => hadb'[last'.host] = hadb[last'.host]]_vars

\* C5: an I2 from a host with no association whose puzzle solution is stale
\* or invalid is rejected and the database holds no association for that
\* initiator afterwards.
C5_NoStateBeforePuzzle ==
    (/\ last.type = "I2"
     /\ last.state = "NONE"
     /\ last.error = "EPROTO_cookie")
        => HA(last.host) = NoHA

\* C6: in HIPv2, an I2 whose DH group is supported but is not the first
\* mutually supported group is rejected by the responder, no SAs are
\* installed, and the responder's state for the peer is UNASSOC afterwards.
C6_DowngradeRejected ==
    (/\ last.type = "I2"
     /\ defver = HIP_V2
     /\ last.grp \in DhGroups \ {HIP_DH_GROUP_LIST[1]})
        => /\ last.error # "ok"
           /\ ~HasSA(last.host, "in")
           /\ ~HasSA(last.host, "out")
           /\ TableState(HA(last.host).state) = "UNASSOCIATED"

\* C7: an I2 that replays the (SPI, keymat index) of an I2 the responder has
\* already processed does not make the responder derive keys again and is
\* answered with the R2 built from the unchanged association.
C7_RetransmittedI2Answered ==
    (/\ last.type = "I2"
     /\ ~last.forged
     /\ "i2_retransmission" \in last.ops)
        => /\ "keymat" \notin last.ops
           /\ "send_r2" \in last.ops

\* C8: processing a second I2 with the same (SPI, keymat index, puzzle) as
\* an I2 already processed neither deletes nor creates SAs.
C8_RetransmittedI2KeepsSAs ==
    (/\ last.type = "I2"
     /\ ~last.forged
     /\ "i2_retransmission" \in last.ops)
        => /\ "sa_delete" \notin last.ops
           /\ "sa_create" \notin last.ops

\* every packet sent has been delivered and no retransmission is pending
Quiescent ==
    /\ net = {}
    /\ \A h \in Hosts : \A e \in hadb[h] : e.retrans = {}

\* C9: once both hosts have been in I2_SENT at the same time, when every
\* packet has been delivered and nothing is left to retransmit both
\* associations are ESTABLISHED.
C9_CollisionResolves ==
    (collided /\ Quiescent) => \A h \in Hosts : HA(h).state = "ESTABLISHED"

C11_GreaterHitI2KeepsI2Sent ==
    (/\ last.type = "I2"
     /\ last.state = "I2_SENT"
     /\ hip_hit_is_bigger(last.peer, last.host))
        => /\ last.error # "ok"
           /\ "send_r2" \notin last.ops
           /\ HA(last.host).state = "I2_SENT"

\* C12 as stated: in state I1_SENT, on an I1 from a peer whose HIT is greater
\* than the local HIT, the host drops its own buffered I1, answers with an R1
\* and its association goes to UNASSOC.
C12_I1FromGreaterAnswered ==
    (/\ last.type = "I1"
     /\ last.state = "I1_SENT"
     /\ hip_hit_is_bigger(last.peer, last.host))
        => /\ "send_r1" \in last.ops
           /\ \A sl \in HA(last.host).retrans : sl.buf.type # "I1"
           /\ TableState(HA(last.host).state) = "UNASSOCIATED"

\* C12 amended: in state I1_SENT, an I1 from a peer whose HIT is greater than
\* the local HIT is dropped: no R1 is sent and the association, with its own
\* buffered I1, is left as it was, in I1_SENT.
C12_I1FromGreaterDropped ==
    [][(/\ last'.type = "I1"
        /\ last'.state = "I1_SENT"
        /\ hip_hit_is_bigger(last'.peer, last'.host))
           => /\ last'.error = "collision_drop"
              /\ "send_r1" \notin last'.ops
              /\ hadb'[last'.host] = hadb[last'.host]
              /\ HA(last'.host).state = "I1_SENT"]_vars

C12_Witness ==
    /\ last.type = "I1"
    /\ last.state = "I1_SENT"
    /\ last.host = HIT_B
    /\ last.peer = HIT_A
    /\ last.error = "collision_drop"
    /\ \E sl \in HA(HIT_B).retrans : sl.buf.type = "I1"

\* the outgoing keys with the incoming keys they must match at the peer
KeyPairs ==
    {<<"hip_enc_out", "hip_enc_in">>, <<"hip_hmac_out", "hip_hmac_in">>,
     <<"esp_out", "esp_in">>, <<"auth_out", "auth_in">>}

\* both hosts hold keys derived from the same inputs
SameKeyInputs ==
    /\ HA(HIT_A).keys # NoKeys
    /\ HA(HIT_A).keys.g = HA(HIT_B).keys.g
    /\ HA(HIT_A).keys.i = HA(HIT_B).keys.i

\* C14: two peers that derived keys from the same DH secret, HITs and puzzle
\* hold the same key block, and each outgoing key of one is the corresponding
\* incoming key of the other.
C14_KeymatSymmetry ==
    SameKeyInputs =>
        \A h \in Hosts : \A kp \in KeyPairs :
            Key(HA(h).keys, kp[1]) = Key(HA(Peer(h)).keys, kp[2])

C14_Witness ==
    /\ SameKeyInputs
    /\ \A h \in Hosts : HA(h).state = "ESTABLISHED"
    /\ Key(HA(HIT_A).keys, "hip_hmac_out").slot
           # Key(HA(HIT_A).keys, "hip_hmac_in").slot

\* the states in which the table has an association hold keys
KeyedStates == {"R2_SENT", "ESTABLISHED", "CLOSING", "CLOSED"}

----------------------------------------------------------------------------
\* the association without its retransmission queue
Committed(e) == [e EXCEPT !.retrans = {}]

\* C15: when an R2 or an UPDATE answer leaves a host, the association and
\* the SAs of the host are already what they are after the packet being
\* answered has been handled: the R2 leaves an ESTABLISHED association with
\* its SAs installed, the UPDATE answer leaves an association that holds the
\* announced anchor as the peer's update anchor.
C15_ReplyAfterCommit ==
    \A em \in last.emit :
        em.type \in {"R2", "UPDATE"} =>
            /\ Committed(em.e) = Committed(HA(last.host))
            /\ em.sa = sadb[last.host]
            /\ em.type = "R2" =>
                   /\ em.e.state = "ESTABLISHED"
                   /\ HasSA(last.host, "in") /\ HasSA(last.host, "out")
            /\ em.type = "UPDATE" =>
                   /\ "anchor_update" \in last.ops
                   /\ em.e.esp_peer_update_anchor # 0

\* an UPDATE answer has left a host that took over a new anchor of its peer
C15_Witness ==
    /\ last.type = "UPDATE"
    /\ last.error = "ok"
    /\ \E em \in last.emit :
          em.type = "UPDATE" /\ em.e.esp_peer_update_anchor # 0
    /\ \E p \in net : p.type = "UPDATE" /\ p.ack # 0 /\ p.src = last.host
    /\ \E p \in net : p.type = "R2" \/ "R2" \in SeqToSet(log)

----------------------------------------------------------------------------
\* the packet types a handled reply has answered: an R1 answers the I1, an
\* R2 answers the I1 and the I2
Answered(type) ==
    CASE type = "R1" -> {"I1"}
      [] type = "R2" -> {"I1", "I2"}
      [] OTHER -> {}

BufferedTypes(e) == {s.buf.type : s \in e.retrans}

\* C16: when a host has handled an R1 or an R2, no packet it sends while
\* handling it leaves an association that still buffers an answered packet,
\* and the association buffers none afterwards; so an association in I2_SENT
\* buffers no I1 and an association in ESTABLISHED buffers no I1 and no I2,
\* and the maintenance loop has no answered packet to resend.
C16_AnsweredSlotsCleared ==
    /\ (last.error = "ok" /\ last.type \in {"R1", "R2"}) =>
          /\ \A em \in last.emit :
                BufferedTypes(em.e) \cap Answered(last.type) = {}
          /\ BufferedTypes(HA(last.host)) \cap Answered(last.type) = {}
    /\ \A h \in Hosts :
          /\ HA(h).state = "I2_SENT" => "I1" \notin BufferedTypes(HA(h))
          /\ HA(h).state = "ESTABLISHED" =>
                BufferedTypes(HA(h)) \cap {"I1", "I2"} = {}

\* a host that buffered an I1 has handled the R1, cleared the slot and sent
\* the I2, which is the one packet it buffers now
C16_Witness ==
    /\ last.type = "R1"
    /\ last.error = "ok"
    /\ last.state = "I1_SENT"
    /\ "retrans_clear" \in last.ops
    /\ \E em \in last.emit : em.type = "I2" /\ em.e.retrans = {}
    /\ BufferedTypes(HA(last.host)) = {"I2"}

----------------------------------------------------------------------------
\* C17: a host whose association has reached ESTABLISHED by handling an I2
\* (responder) or an R2 (initiator) has reported the base exchange to the
\* firewall with FW_BEX_DONE while handling the packet.
C17_BexDoneReported ==
    (/\ last.type \in {"I2", "R2"}
     /\ last.error = "ok"
     /\ HA(last.host).state = "ESTABLISHED")
        => "bex_done" \in last.ops

----------------------------------------------------------------------------
\* C18: the association database of a host holds at most one association
\* for a pair of local HIT and peer HIT, whatever triggers and packets the
\* host has handled.
C18_OneAssociationPerPair ==
    \A h \in Hosts : \A e1, e2 \in hadb[h] :
        (e1.hit_our = e2.hit_our /\ e1.hit_peer = e2.hit_peer) => e1 = e2

\* a host that held an association with the peer has handled an I2 of that
\* peer: the old association was deleted, a new one was made, and the
\* database holds one
C18_Witness ==
    /\ last.type = "I2"
    /\ last.error = "ok"
    /\ last.state \in {"I1_SENT", "I2_SENT"}
    /\ {"ha_delete", "ha_create"} \subseteq last.ops
    /\ Cardinality(hadb[last.host]) = 1

----------------------------------------------------------------------------
\* C19: a version 2 initiator goes on with an R1 only if the DH group of the
\* R1 is the first group of the peer's list (the DH_GROUP_LIST of the R1)
\* that the initiator supports.
C19_PeersFirstSupportedGroup ==
    (/\ last.type = "R1"
     /\ defver = HIP_V2
     /\ last.error = "ok")
        => last.grp = FirstCommon(last.dhlist, HIP_DH_GROUP_LIST)

\* the transforms whose tokens are elements of a hash chain
HchainTransforms ==
    {ESP_PROT_TFM_PLAIN, ESP_PROT_TFM_PARALLEL, ESP_PROT_TFM_CUMULATIVE,
     ESP_PROT_TFM_PARA_CUMUL}

\* W of a packet: the distance of its sequence number from the last one
\* seen, counted as the sequence numbers are
WindowW(seq, seq_no) == u32(seq - seq_no)

\* C20: for the hash-chain transforms the tracker accepts the token of an
\* ESP packet only if W = incoming_seq - last_seen_seq satisfies
\* 0 < W <= window_size, it accepts every packet of that window whose token
\* hashes to the active anchor in W steps, and the packet it accepted by its
\* token is the last one seen.
C20_TokenWindow ==
    /\ (hipfw.last.how = "hchain" /\ hipfw.last.err = 0) =>
          LET W == WindowW(hipfw.last.seq, hipfw.last.seq_no)
          IN /\ hipfw.last.tfm \in HchainTransforms
             /\ 0 < W /\ W <= hipfw.window_size
             /\ HashN(hipfw.last.token, W) \in {hipfw.last.active, hipfw.last.next}
             /\ \A t \in hipfw.esp_tuples : t.seq_no = hipfw.last.seq
    /\ \A t \in hipfw.esp_tuples : \A esp \in EspPackets(hipfw, t) :
          LET W == WindowW(esp.seq, t.seq_no)
              chain == (u32(esp.seq - 1) % t.num_hchains) + 1
              r == filter_esp_state(hipfw, esp, t)
          IN (/\ hipfw.state = "running"
              /\ t.esp_prot_tfm \in HchainTransforms
              /\ 0 < W /\ W <= hipfw.window_size
              /\ HashN(esp.token, W) = t.active_anchors[chain])
             => /\ r.last.err = 0 /\ r.last.how = "hchain"
                /\ \A t2 \in r.esp_tuples :
                      /\ t2.seq_no = esp.seq
                      /\ t2.active_anchors[chain] = esp.token

\* a packet at the far end of the window was accepted by its token after
\* the sequence numbers had wrapped
C20_Witness ==
    /\ hipfw.last.how = "hchain" /\ hipfw.last.err = 0
    /\ hipfw.last.seq < hipfw.last.seq_no
    /\ WindowW(hipfw.last.seq, hipfw.last.seq_no) = hipfw.window_size
    /\ hipfw.window_size = MaxWindow
    /\ HashN(hipfw.last.token, hipfw.window_size) = hipfw.last.active

\* the chain a sequence number uses
ActiveHchain(seq, t) == (u32(seq - 1) % t.num_hchains) + 1

C22_AnchorFollowsToken ==
    /\ (hipfw.last.how = "hchain" /\ hipfw.last.err = 0) =>
          \A t \in hipfw.esp_tuples :
              t.active_anchors[ActiveHchain(hipfw.last.seq, t)] = hipfw.last.token
    /\ \A t \in hipfw.esp_tuples : \A esp \in EspPackets(hipfw, t) :
          LET chain == ActiveHchain(esp.seq, t)
              f == filter_esp_state(hipfw, esp, t)
          IN (/\ hipfw.state = "running"
              /\ t.esp_prot_tfm \in HchainTransforms
              /\ esp.seq = u32(t.seq_no + 1)
              /\ hash_function(esp.token) = t.active_anchors[chain])
             => /\ f.last.err = 0 /\ f.last.how = "hchain"
                /\ \A t2 \in f.esp_tuples :
                      /\ t2.active_anchors[chain] = esp.token
                      /\ t2.seq_no = esp.seq

\* with a window of one packet, where only the packet that follows the
\* last one seen is verified, more packets than the window is wide have
\* arrived in order from seq 1 on, all were accepted, and the anchor of the
\* one chain in use has advanced once for each of them
C22_Witness ==
    /\ hipfw.window_size = 1
    /\ hipfw.last.how = "hchain" /\ hipfw.last.err = 0
    /\ hipfw.last.seq = SeqMod - 1
    /\ hipfw.last.seq_no = SeqMod - 2
    /\ \E t \in hipfw.esp_tuples :
          /\ t.num_hchains = 1
          /\ t.seq_no = SeqMod - 1
          /\ t.active_anchors[1] = Elem(0, SeqMod - 1)

\* C23: the anchor cache of an esp_tuple never holds two updates with the
\* same seq: a first UPDATE or light update whose seq is already cached adds
\* nothing.
C23_CacheDiscipline ==
    \A t \in hipfw.esp_tuples :
        \A i, j \in 1 .. Len(t.anchor_cache) :
            t.anchor_cache[i].seq = t.anchor_cache[j].seq => i = j

\* the UPDATEs that acknowledge a cached update of an esp_tuple
MatchingAcks(t) ==
    {m \in Updates(t) :
        /\ conntrack_update_case(m) = "ack"
        /\ m.old_spi = t.spi
        /\ \E k \in 1 .. Len(t.anchor_cache) : t.anchor_cache[k].seq = m.ack}

\* the cached update an acknowledgement names: the first with its id
CachedItem(t, ack) ==
    t.anchor_cache[CHOOSE k \in 1 .. Len(t.anchor_cache) :
                      /\ t.anchor_cache[k].seq = ack
                      /\ \A k2 \in 1 .. (k - 1) : t.anchor_cache[k2].seq # ack]

\* C24: an ACK whose update id is the seq of a cached anchor item makes the
\* cached new anchors the active anchors of the esp_tuple and removes the
\* item, and a second copy of the same ACK changes nothing further.
C24_AckOverwritesActive ==
    \A t \in hipfw.esp_tuples : \A m \in MatchingAcks(t) :
        LET r == esp_prot_conntrack_update(hipfw, m, NoRoot)
            again == esp_prot_conntrack_update(r.fw, m, NoRoot)
            item == CachedItem(t, m.ack)
        IN /\ r.err = 0
           /\ \A t2 \in r.fw.esp_tuples :
                 /\ \A i \in 1 .. t.num_hchains :
                       t2.active_anchors[i] = item.next_anchors[i]
                 /\ Len(t2.anchor_cache) = Len(t.anchor_cache) - 1
           /\ again.fw.esp_tuples = r.fw.esp_tuples

\* an anchor update of the chain has been acknowledged and no packet of
\* the new chain has been seen yet
Acknowledged(t, chain) ==
    /\ t.next_anchors[chain] # NoAnchor
    /\ t.next_anchors[chain] # t.first_active_anchors[chain]

\* C25: the active anchor is replaced exactly when the ACK of an anchor
\* update is received: before it a packet whose token hashes to the old
\* anchor is accepted, after it a packet whose token hashes to the new
\* anchor is accepted and a packet of the old chain is rejected.
C25_ActiveReplacedAtAck ==
    \A t \in hipfw.esp_tuples : \A esp \in EspPackets(hipfw, t) :
        LET chain == ActiveHchain(esp.seq, t)
            W == WindowW(esp.seq, t.seq_no)
            v == esp_prot_conntrack_verify(hipfw, esp, t)
        IN (/\ hipfw.state = "running"
            /\ t.esp_prot_tfm \in HchainTransforms
            /\ InWindow(hipfw, esp, t)) =>
              IF Acknowledged(t, chain)
              THEN /\ HashN(esp.token, W) = t.next_anchors[chain] => v.err >= 0
                   /\ esp.token.c = t.first_active_anchors[chain].c => v.err < 0
              ELSE HashN(esp.token, W) = t.active_anchors[chain] => v.err = 0

\* the anchor and the root of the oldest pending update of a chain
PendingNext(t, chain) ==
    IF t.anchor_cache = <<>> THEN NoAnchor
    ELSE t.anchor_cache[Len(t.anchor_cache)].next_anchors[chain]

PendingRoot(t, chain) ==
    IF t.anchor_cache = <<>> THEN NoRoot
    ELSE t.anchor_cache[Len(t.anchor_cache)].roots[chain]

\* C26: when the token of a data packet verifies against the next anchor
\* instead of the active one, the active anchor becomes the next anchor, the
\* next anchor is taken from the pending update and the next root becomes
\* the root of that update; any other packet rotates nothing.
C26_TransitionRotates ==
    \A t \in hipfw.esp_tuples : \A esp \in EspPackets(hipfw, t) :
        LET chain == ActiveHchain(esp.seq, t)
            W == WindowW(esp.seq, t.seq_no)
            t2 == esp_prot_conntrack_verify(hipfw, esp, t).t
            transition == /\ InWindow(hipfw, esp, t)
                          /\ HashN(esp.token, W) # t.active_anchors[chain]
                          /\ t.next_anchors[chain] # NoAnchor
                          /\ HashN(esp.token, W) = t.next_anchors[chain]
        IN (hipfw.state = "running" /\ t.esp_prot_tfm \in HchainTransforms) =>
              IF transition
              THEN /\ t2.active_anchors[chain] = t.next_anchors[chain]
                   /\ t2.next_anchors[chain] = PendingNext(t, chain)
                   /\ t2.next_roots[chain] = PendingRoot(t, chain)
              ELSE /\ t2.first_active_anchors = t.first_active_anchors
                   /\ t2.next_anchors = t.next_anchors
                   /\ t2.active_roots = t.active_roots
                   /\ t2.next_roots = t.next_roots

\* C27: a light update whose branch does not verify against the active
\* root changes nothing in the tracker: its anchor is not cached and no
\* other state is written.
C27_VerifiedBeforeChange ==
    \A t \in hipfw.esp_tuples : \A m \in LightUpdates(t) :
        (/\ hipfw.state = "running"
         /\ t.esp_prot_tfm > ESP_PROT_TFM_UNUSED
         /\ m.seq # 0
         /\ esp_prot_conntrack_verify_branch(hipfw, m.anchor, m.branches) # 0)
        => esp_prot_conntrack_lupdate(hipfw, m).fw = hipfw

\* C28: the daemon and the firewall put every UPDATE in the same class: what
\* the one takes for the first packet of an anchor update the other caches,
\* and what the one takes for its acknowledgement the other applies.
C28_SameClassification ==
    \A t \in hipfw.esp_tuples : \A m \in Updates(t) :
        /\ (esp_prot_update_type(m) = "FIRST_UPDATE_PACKET")
              = (conntrack_update_case(m) = "first")
        /\ (esp_prot_update_type(m) = "SECOND_UPDATE_PACKET")
              = (conntrack_update_case(m) = "ack")

Dropped(fw) ==
    {[fw EXCEPT !.last = [NoVerdict EXCEPT !.err = 0 - 1, !.how = how]] :
        how \in {"hchain", "window", "cumulative", "tree"}}

\* C30: a data packet that fails verification is dropped and nothing is
\* torn down: the firewall keeps running, the esp_tuple and the daemon's
\* associations stay as they are, and every packet that was valid before
\* the dropped one is still accepted after it.
C30_ConnectionIntact ==
    /\ [](\A t \in hipfw.esp_tuples : \A esp \in EspPackets(hipfw, t) :
            hipfw.state = "running" =>
               IF esp_prot_conntrack_verify(hipfw, esp, t).err < 0
               THEN filter_esp_state(hipfw, esp, t) \in Dropped(hipfw)
               ELSE \A f \in Dropped(hipfw) :
                       filter_esp_state(f, esp, t).last.err = 0)
    /\ [][hipfw'.last.err < 0 =>
             /\ hipfw'.state = "running"
             /\ hipfw'.esp_tuples # {}
             /\ hipfw'.esp_tuples = hipfw.esp_tuples
             /\ hadb' = hadb /\ sadb' = sadb]_vars

\* a packet has just been dropped by an esp_tuple that had accepted
\* packets before, and a packet with a valid token is accepted next
C30_Witness ==
    /\ hipfw.last.err < 0
    /\ \E t \in hipfw.esp_tuples :
          /\ t.esp_prot_tfm \in HchainTransforms
          /\ t.seq_no > 0
          /\ \E esp \in EspPackets(hipfw, t) :
                LET f == filter_esp_state(hipfw, esp, t)
                IN /\ f.last.err = 0 /\ f.last.how = "hchain"
                   /\ \A t2 \in f.esp_tuples : t2.seq_no = esp.seq

----------------------------------------------------------------------------
(* ESP protection in the base exchange when the anchor db runs dry *)

\* the hosts have agreed on a token transform when packet p is handled: the
\* R1 offers it to an initiator that prefers it, the I2 carries an anchor of it
AgreedOnTransform(p) ==
    /\ hip_use_userspace_ipsec /\ esp_prot_num_transforms > 1
    /\ \/ p.type = "R1" /\ esp_prot_select_transform(p.tfms) > ESP_PROT_TFM_UNUSED
       \/ /\ p.type = "I2" /\ p.anchor # <<>>
          /\ p.anchor[1].transform > ESP_PROT_TFM_UNUSED
          /\ p.anchor[1].transform \in SeqToSet(esp_prot_transforms)

\* C31: when the anchor db of a host cannot supply the anchors of an SA
\* during a base exchange, the host falls back to the transform UNUSED and
\* the base exchange goes on: for every R1 and I2 on the way to a host whose
\* anchor db is exhausted, once the checks of the packet have passed, the
\* handler chain ends without an error, the association holds the transform
\* UNUSED and has moved on (I2_SENT, ESTABLISHED), no anchor was taken, and
\* the I2 or R2 that answers the packet tells the peer of the fallback
C31_FallbackContinues ==
    \A p \in net : \A tab \in {"v1", "v2"} :
        LET c == hip_receive_control_packet(p.dst, p, tab)
            answer == IF p.type = "R1" THEN "I2" ELSE "R2"
        IN (/\ AgreedOnTransform(p)
            /\ anchor_db_get_num_anchors(p.dst) < esp_prot_num_parallel_hchains
            /\ \/ c.error = "ok"
               \/ c.phase \in {"hip_send_i2", "hip_send_r2"})
           => /\ c.error = "ok"
              /\ c.e.esp_prot_transform = ESP_PROT_TFM_UNUSED
              /\ c.e.state = (IF p.type = "R1" THEN "I2_SENT" ELSE "ESTABLISHED")
              /\ "anchor_get" \notin c.ops
              /\ \E q \in c.out :
                    /\ q.type = answer
                    /\ q.anchor = EspProtAnchor(ESP_PROT_TFM_UNUSED, 0, 0)

\* an initiator without anchors has answered an R1 that offered the
\* transform with an I2 that names UNUSED, and a responder without anchors
\* has answered an I2 that carried an anchor with such an R2
C31_Witness ==
    /\ esp_prot_active
    /\ last.type \in {"R1", "I2"}
    /\ last.error = "ok"
    /\ "anchor_get" \notin last.ops
    /\ anchor_db[last.host] = 0
    /\ HA(last.host).esp_prot_transform = ESP_PROT_TFM_UNUSED
    /\ \E q \in net :
          /\ q.src = last.host
          /\ q.type = (IF last.type = "R1" THEN "I2" ELSE "R2")
          /\ q.anchor = EspProtAnchor(ESP_PROT_TFM_UNUSED, 0, 0)

\* C40: when a base exchange is complete, both hosts hold the same ESP
\* protection transform for the association: whenever the associations of
\* the two hosts are both ESTABLISHED, their transforms are equal
C40_SameTransform ==
    (\A h \in Hosts : HA(h).state = "ESTABLISHED")
        => HA(HIT_A).esp_prot_transform = HA(HIT_B).esp_prot_transform

----------------------------------------------------------------------------
(* Triggers for an association that is established *)

\* a step in which host h is asked for a base exchange with its peer, by the
\* kernel or by a user message
TriggerStep(h) ==
    LET r == netdev_trigger_bex(h, Peer(h))
    IN /\ hadb' = [hadb EXCEPT ![h] = r.db]
       /\ net' = net \cup r.out
       /\ last' = NoLast
       /\ nenv' # nenv
       /\ UNCHANGED <<sadb, r1gen, log>>

\* C37: a trigger for a peer whose association is ESTABLISHED does nothing,
\* whether it comes from the kernel (ACQUIRE) or from a user (TRIGGER_BEX):
\* no packet is sent and the association is left as it is
C37_TriggerWhenEstablishedIsNoop ==
    [][\A h \in Hosts :
          (HA(h).state = "ESTABLISHED" /\ TriggerStep(h))
              => (net' = net /\ hadb'[h] = hadb[h])]_vars

----------------------------------------------------------------------------
(* A retransmitted I2 *)

\* packet p is a copy of the I2 that made the association e of its receiver:
\* same SPI and keymat index, the puzzle and group the keys of e were derived
\* from, the HMAC of e, and the R1 it answers is still in the cache
CopyOfAcceptedI2(p, e) ==
    /\ p.type = "I2"
    /\ e # NoHA /\ e.state = "ESTABLISHED"
    /\ i2_is_retransmission(Ctx(p, e, {}, {}))
    /\ p.ver = e.hip_version
    /\ e.keys.i = p.puz /\ e.keys.g = p.grp
    /\ p.hmac = Key(e.keys, "hip_hmac_in")
    /\ p.sig = e.peer_pub /\ p.hostid = e.hit_peer
    /\ p.sol /\ p.puz.n = r1gen[p.dst]

\* C35: a retransmitted copy of an I2 the responder has accepted is verified
\* as the original was, accepted again and answered with an R2: for every
\* such copy on the way, the handler chain of the responder ends without an
\* error and has sent an R2 to the initiator
C35_CopyOfI2AcceptedAgain ==
    \A p \in net : \A tab \in {"v1", "v2"} :
        LET e == hip_hadb_find_byhits(hadb[p.dst], p.src, p.dst)
            c == hip_receive_control_packet(p.dst, p, tab)
        IN CopyOfAcceptedI2(p, e)
              => /\ c.error = "ok"
                 /\ \E q \in c.out : q.type = "R2" /\ q.dst = p.src

----------------------------------------------------------------------------
(* The sequence number of light updates *)

\* the light updates with a SEQ that may pass the tracker of esp_tuple t, the
\* update ids reaching one beyond those of the genuine updates
SeqLightUpdates(t) ==
    {[m EXCEPT !.seq = @ + k] :
        m \in {u \in LightUpdates(t) : u.seq # 0}, k \in 0 .. 1}

\* C36: only a light update whose branch verifies advances lupdate_seq: a
\* light update that is not old and whose branch does not lead to the active
\* root leaves lupdate_seq as it is, and every light update the tracker would
\* have accepted before it is accepted after it
C36_LupdateSeqOnlyByVerified ==
    \A t \in hipfw.esp_tuples : \A bad \in SeqLightUpdates(t) :
        LET after == esp_prot_conntrack_lupdate(hipfw, bad).fw
        IN (/\ hipfw.state = "running"
            /\ t.esp_prot_tfm > ESP_PROT_TFM_UNUSED
            /\ bad.seq >= hipfw.lupdate_seq
            /\ esp_prot_conntrack_verify_branch(hipfw, bad.anchor,
                                                bad.branches) # 0)
           => /\ after.lupdate_seq = hipfw.lupdate_seq
              /\ \A g \in SeqLightUpdates(t) :
                    esp_prot_conntrack_lupdate(hipfw, g).err = 0
                        => esp_prot_conntrack_lupdate(after, g).err = 0

----------------------------------------------------------------------------
(* The address cache *)

\* update_address_list for every address message of a batch, one after the
\* other
RECURSIVE ApplyInOrder(_, _)
ApplyInOrder(nd, msgs) ==
    IF msgs = <<>> THEN nd
    ELSE LET m == Head(msgs)
         IN ApplyInOrder(
                IF IsAddressEvent(nd, m)
                THEN update_address_list(nd, m.addr,
                                         m.nlmsg_type = "RTM_NEWADDR", m.ifindex)
                ELSE nd,
                Tail(msgs))

\* C39: every address message of a batch is applied to the cache whatever
\* became of the messages before it: after hip_netdev_event the cache is the
\* one that update_address_list gives for the messages in order
C39_BatchAppliedInOrder ==
    \A msgs \in Batches(MaxBatch) :
        hip_netdev_event(netdev, msgs).addresses
            = ApplyInOrder(netdev, msgs).addresses

----------------------------------------------------------------------------
(* HMAC verification and the inbound ESP path *)

\* C34: after hip_verify_packet_hmac_general the length and the checksum of
\* the message are the ones it was received with, whatever was returned
C34_HmacCheckRestoresPacket ==
    hmac_input.called
        => /\ hmac_input.msg.total_len = hmac_input.received.total_len
           /\ hmac_input.msg.checksum = hmac_input.received.checksum

\* the ICV of a packet is the digest of the suite under the key of the SA
IcvMatches(entry, in) ==
    /\ entry.auth_key # NoSaKey
    /\ in.len >= ICV_LENGTH
    /\ in.icv = HMAC(SuiteDigest(entry.ealg), entry.auth_key, in.data)

\* C33: a packet whose ICV does not match is rejected by hip_beet_mode_input
\* for every suite; nothing of it was decrypted into the output buffer and
\* no header was put in front of it
C33_AuthenticateBeforeDecrypt ==
    (esp_input.called /\ ~IcvMatches(esp_input.entry, esp_input.in))
        => /\ esp_input.err # 0
           /\ esp_input.decrypted_packet = NoOut
           /\ ~esp_input.header

\* a complete packet with a replaced payload was rejected by an SA that
\* holds its keys
C33_Witness ==
    /\ esp_input.called
    /\ ~IcvMatches(esp_input.entry, esp_input.in)
    /\ esp_input.in.len >= ICV_LENGTH
    /\ esp_input.entry.auth_key # NoSaKey /\ esp_input.entry.enc_key # NoSaKey
    /\ esp_input.entry.ealg = "HIP_ESP_AES_SHA1"
    /\ esp_input.in.icv.key = esp_input.entry.auth_key
    /\ esp_input.in.data.plain = "other"
    /\ esp_input.err # 0 /\ ~esp_input.fault

----------------------------------------------------------------------------
(* The renewal of the local anchor *)

\* C38: at most one local anchor update is outstanding per association.  A
\* trigger-update is accepted only while no update anchor is set and sets
\* it; one that arrives while an update anchor is set is rejected and leaves
\* the association as it was.  An anchor-change is accepted only while an
\* update anchor is set and names it; it makes the update anchor the local
\* anchor and clears the update anchor; a rejected one changes nothing.
C38_OneLocalUpdateOutstanding ==
    \A h \in Hosts :
        LET e == HA(h)
        IN (e # NoHA /\ FwHoldsSA(h))
           => /\ \A msg \in TriggerUpdateMsgs(h) :
                    LET r == esp_prot_handle_trigger_update_msg(hadb[h], msg)
                    IN /\ e.esp_local_update_anchor # 0
                          => (r.err # 0 /\ r.e = e)
                       /\ r.err = 0
                          => /\ e.esp_local_update_anchor = 0
                             /\ r.e.esp_local_update_anchor = msg.anchor
                             /\ r.e.esp_local_update_anchor # 0
              /\ \A msg \in AnchorChangeMsgs(h) :
                    LET r == esp_prot_handle_anchor_change_msg(hadb[h], msg)
                    IN /\ r.err = 0
                          => /\ e.esp_local_update_anchor # 0
                             /\ msg.anchor = e.esp_local_update_anchor
                             /\ r.e.esp_local_anchor = e.esp_local_update_anchor
                             /\ r.e.esp_local_update_anchor = 0
                       /\ r.err # 0 => r.e = e

====
